---- MODULE Spec2Model ----
(***************************************************************************)
(* TradingAgentRegistry (Solidity ^0.8.13): the registry of price-         *)
(* triggered trading agents, its strategy validation, owner checks,        *)
(* cooldown gate and trigger comparison, driven by a Pyth price oracle.    *)
(*                                                                         *)
(* Every external call is one EVM transaction: it either runs to its end   *)
(* or reverts and leaves the storage, the oracle and the log untouched.    *)
(*                                                                         *)
(* uint256 values are integers; a negative integer n stands for the        *)
(* uint256 value 2^256 + n (so -1 is type(uint256).max).  Additions are    *)
(* checked as in Solidity 0.8: an overflowing sum reverts with Panic.      *)
(* A converted price is a sequence of decimal digits, most significant     *)
(* first and without leading zeros (<<0>> is zero): the conversion scales  *)
(* by powers of ten up to 10^77, and the cast of a negative int64 m to     *)
(* uint64 is 2^64 + m, so its values are computed exactly on the digits.   *)
(***************************************************************************)
EXTENDS Integers, Sequences, FiniteSets, TLC

VARIABLES
    agents,            \* mapping(bytes32 => Agent) agents
    userAgents,        \* mapping(address => bytes32[]) userAgents
    ensNodeToAgentId,  \* mapping(bytes32 => bytes32) ensNodeToAgentId
    agentCount,        \* uint256 agentCount
    pythPrices,        \* the oracle's stored reading per price feed
    now,               \* block.timestamp
    ticks,             \* number of time advances so far
    last,              \* the last call: operation, sender, arguments, outcome
    logs,              \* the events emitted by the last transaction
    executedAt,        \* per agent: timestamp of its latest TriggerExecuted event
    deactivated,       \* per agent: an AgentDeactivated event was emitted
    untouched,         \* per agent: no update/deactivate since its latest TriggerExecuted
    swap,              \* one invocation of executeAgentSwap: position, locals, calls, result
    perms              \* useAgentPermissions: localStorage, Date.now() and the last call

vars == <<agents, userAgents, ensNodeToAgentId, agentCount, pythPrices, now,
          ticks, last, logs, executedAt, deactivated, untouched, swap, perms>>

\* the state of the frontend modules, which no contract call touches
client == <<swap, perms>>

store == <<agents, userAgents, ensNodeToAgentId, agentCount>>

-----------------------------------------------------------------------------
(* Bounds of the model                                                     *)

MaxTicks == 2      \* number of block-time advances
StartTime == 1000  \* block.timestamp of the first transaction

-----------------------------------------------------------------------------
(* Input domains                                                           *)

Addresses == {1, 2}              \* callers (address(0) is 0)
AgentIds == {1, 2}               \* bytes32 agent ids
Labels == {"a", "b"}             \* ENS labels
PriceFeedIds == {0, 1}           \* bytes32(0) and one feed
MAX_UINT256 == -1                \* type(uint256).max in the encoding above
MAX_AGE == 300                   \* getPriceNoOlderThan(..., 300)

\* oracle readings as (price, expo) pairs: they convert to 49, 50 and 51
Readings == {<<49, 0>>, <<5, -1>>, <<519, 1>>}

\* bytes[] updateData: empty, or one signed reading published in this block
UpdateData == {<<>>} \cup {<<r>> : r \in Readings}

\* the oracle's getValidTimePeriod() at a call of getPrice, in seconds: a minute and an hour
ValidTimePeriods == {60, 3600}

-----------------------------------------------------------------------------
(* Checked uint256 arithmetic                                              *)

\* a < b on uint256
U256Lt(a, b) ==
    IF (a >= 0) = (b >= 0) THEN a < b ELSE a >= 0

\* a + b does not fit a uint256
AddOverflows(a, b) ==
    IF a >= 0 /\ b >= 0 THEN FALSE
    ELSE IF a < 0 /\ b < 0 THEN TRUE
    ELSE a + b >= 0

RECURSIVE Pow10(_)
Pow10(k) == IF k = 0 THEN 1 ELSE 10 * Pow10(k - 1)

\* the largest k whose power 10 ** k fits a uint256 (10^77 < 2^256 < 10^78)
MAX_POW10 == 77

\* 10 ** k reverts with Panic
PowOverflows(k) == k > MAX_POW10

-----------------------------------------------------------------------------
(* Exact unsigned values as decimal digits                                 *)

\* Then(value), with value computed first
Eval(value, Then(_)) == CHOOSE result \in {Then(v) : v \in {value}} : TRUE

\* the decimal digits of a natural number, most significant first
RECURSIVE Dec(_)
Dec(n) == IF n < 10 THEN <<n>> ELSE Append(Dec(n \div 10), n % 10)

\* a < b on digit sequences
DecLt(a, b) ==
    IF Len(a) # Len(b) THEN Len(a) < Len(b)
    ELSE \E i \in 1..Len(a) : a[i] < b[i] /\ \A j \in 1..(i - 1) : a[j] = b[j]

\* the sequence without its leading zeros
DecStrip(a) ==
    IF \A i \in 1..Len(a) : a[i] = 0 THEN <<0>>
    ELSE SubSeq(a, CHOOSE i \in 1..Len(a) : a[i] # 0 /\ \A j \in 1..(i - 1) : a[j] = 0,
                Len(a))

\* the digit of a that is i places from the right, 0 beyond its length
DecDigit(a, i) == IF i < Len(a) THEN a[Len(a) - i] ELSE 0

\* the subtraction a - b borrows into the digit i places from the right: below it,
\* the highest place where the two differ has the smaller digit in a, which is a
\* place of b
DecBorrow(a, b, i) ==
    \E j \in 0..((IF i < Len(b) THEN i ELSE Len(b)) - 1) :
        /\ DecDigit(a, j) < DecDigit(b, j)
        /\ \A l \in (j + 1)..(i - 1) : DecDigit(a, l) = DecDigit(b, l)

\* a - b for a >= b
DecSub(a, b) ==
    DecStrip(<<>> \o [n \in 1..Len(a) |->
                LET i == Len(a) - n
                    d == DecDigit(a, i) - DecDigit(b, i)
                            - (IF DecBorrow(a, b, i) THEN 1 ELSE 0)
                IN  IF d < 0 THEN d + 10 ELSE d])

\* the sum a + b carries into the digit i places from the right
DecCarry(a, b, i) ==
    \E j \in 0..(i - 1) :
        /\ DecDigit(a, j) + DecDigit(b, j) >= 10
        /\ \A l \in (j + 1)..(i - 1) : DecDigit(a, l) + DecDigit(b, l) = 9

DecAdd(a, b) ==
    LET len == (IF Len(a) > Len(b) THEN Len(a) ELSE Len(b)) + 1
    IN  DecStrip(<<>> \o [n \in 1..len |->
                    LET i == len - n
                    IN  (DecDigit(a, i) + DecDigit(b, i)
                            + (IF DecCarry(a, b, i) THEN 1 ELSE 0)) % 10])

\* a * 10 ** k
DecMulPow10(a, k) == IF a = <<0>> THEN a ELSE a \o [i \in 1..k |-> 0]

\* a / 10 ** k, truncated
DecDivPow10(a, k) == IF Len(a) <= k THEN <<0>> ELSE SubSeq(a, 1, Len(a) - k)

\* the sum of the digit products a_i * b_(j - i) for i in lo..hi
RECURSIVE DecColumn(_, _, _, _, _)
DecColumn(a, b, j, lo, hi) ==
    IF lo > hi THEN 0
    ELSE IF lo = hi THEN DecDigit(a, lo) * DecDigit(b, j - lo)
    ELSE DecColumn(a, b, j, lo, (lo + hi) \div 2)
            + DecColumn(a, b, j, (lo + hi) \div 2 + 1, hi)

\* one step of carrying, on places counted from the right: each place keeps its last
\* digit and receives the rest of the place below
DecCarryStep(v) ==
    <<>> \o [p \in 1..Len(v) |-> (v[p] % 10) + (IF p = 1 THEN 0 ELSE v[p - 1] \div 10)]

Reverse(v) == <<>> \o [p \in 1..Len(v) |-> v[Len(v) + 1 - p]]

\* a * b: the column sums, carried until every place holds 10 at most, then the sum of
\* the digits and of the carries that remain
DecMul(a, b) ==
    Eval(<<>> \o [p \in 1..(Len(a) + Len(b) + 8) |->
                    DecColumn(a, b, p - 1,
                              IF p - 1 < Len(b) THEN 0 ELSE p - Len(b),
                              IF p - 1 < Len(a) THEN p - 1 ELSE Len(a) - 1)],
         LAMBDA columns :
    Eval(DecCarryStep(DecCarryStep(DecCarryStep(columns))), LAMBDA u :
    Eval(DecCarryStep(DecCarryStep(DecCarryStep(u))), LAMBDA v :
    Eval(DecStrip(Reverse([p \in 1..Len(v) |-> v[p] % 10])), LAMBDA digits :
    Eval(DecStrip(Reverse(<<0>> \o [p \in 1..Len(v) |-> v[p] \div 10])), LAMBDA carries :
        DecAdd(digits, carries))))))

\* b ** n
RECURSIVE DecPow(_, _)
DecPow(b, n) ==
    IF n = 0 THEN <<1>>
    ELSE Eval(DecPow(b, n \div 2), LAMBDA h :
            Eval(DecMul(h, h), LAMBDA sq : IF n % 2 = 0 THEN sq ELSE DecMul(sq, b)))

\* 2^64, one more than type(uint64).max
TWO_64 ==
    <<1, 8, 4, 4, 6, 7, 4, 4, 0, 7, 3, 7, 0, 9, 5, 5, 1, 6, 1, 6>>

\* 2^256, one more than type(uint256).max
TWO_256 ==
    <<1, 1, 5, 7, 9, 2, 0, 8, 9, 2, 3, 7, 3, 1, 6, 1, 9, 5, 4, 2,
      3, 5, 7, 0, 9, 8, 5, 0, 0, 8, 6, 8, 7, 9, 0, 7, 8, 5, 3, 2,
      6, 9, 9, 8, 4, 6, 6, 5, 6, 4, 0, 5, 6, 4, 0, 3, 9, 4, 5, 7,
      5, 8, 4, 0, 0, 7, 9, 1, 3, 1, 2, 9, 6, 3, 9, 9, 3, 6>>

\* the exact value of a uint256 of the storage
U256Dec(v) == IF v >= 0 THEN Dec(v) ELSE DecSub(TWO_256, Dec(-v))

\* the checked product a * 10 ** k does not fit a uint256 and reverts with Panic
MulPow10Overflows(a, k) == ~DecLt(DecMulPow10(a, k), TWO_256)

-----------------------------------------------------------------------------
(* JavaScript numbers (IEEE 754 doubles) and BigInt                        *)

\* what an awaited collaborator answers
Threw == [threw |-> TRUE, value |-> 0]
Answer(v) == [threw |-> FALSE, value |-> v]

\* a JavaScript number: NaN, an infinity, or the double of value
\* (-1)^negative * mantissa * 2^exponent, the mantissa in decimal digits
NaN == [kind |-> "NaN", negative |-> FALSE, mantissa |-> <<0>>, exponent |-> 0]
Infinity(negative) ==
    [kind |-> "Infinity", negative |-> negative, mantissa |-> <<0>>, exponent |-> 0]
Finite(negative, mantissa, exponent) ==
    [kind |-> "finite", negative |-> negative, mantissa |-> mantissa,
     exponent |-> exponent]

Pow2(n) == DecPow(<<2>>, n)

\* floor(x / 2^k), computed as floor(x * 5^k / 10^k)
DecShiftRight(x, k) ==
    Eval(DecPow(<<5>>, k), LAMBDA fives : DecDivPow10(DecMul(x, fives), k))

\* the number of binary digits of x; the range of the search follows from the number of
\* decimal digits (3.3219 < log2(10) < 3.3220)
BitLength(x) ==
    IF x = <<0>> THEN 0
    ELSE CHOOSE len \in (((Len(x) - 1) * 33219) \div 10000 + 1)
                            ..((Len(x) * 33220) \div 10000 + 1) :
            Eval(Pow2(len - 1), LAMBDA low : ~DecLt(x, low) /\ DecLt(x, DecMul(low, <<2>>)))

\* the double nearest to x * 2^e, ties to the even mantissa: 53 binary digits, no
\* exponent below -1074, an infinity from 2^1024 on
RoundToDouble(negative, x, e) ==
    IF x = <<0>> THEN Finite(negative, <<0>>, 0)
    ELSE Eval(BitLength(x), LAMBDA len :
         LET k == IF len - 53 > -1074 - e THEN len - 53 ELSE -1074 - e
         IN  IF k <= 0
             THEN IF len + e > 1024 THEN Infinity(negative) ELSE Finite(negative, x, e)
             ELSE Eval(DecShiftRight(x, k), LAMBDA q :
                  Eval(DecMul(q, Pow2(k)), LAMBDA below :
                  Eval(DecSub(x, below), LAMBDA r :
                  Eval(Pow2(k - 1), LAMBDA half :
                  Eval(IF DecLt(half, r) \/ (r = half /\ q[Len(q)] % 2 = 1)
                       THEN DecAdd(q, <<1>>) ELSE q, LAMBDA m :
                      IF BitLength(m) + e + k > 1024 THEN Infinity(negative)
                      ELSE Finite(negative, m, IF m = <<0>> THEN 0 ELSE e + k)))))))

\* Number(x) of a BigInt x >= 0
NumberOfBigInt(x) == Eval(x, LAMBDA digits : RoundToDouble(FALSE, digits, 0))

\* a * b of two numbers
NumberMultiply(a, b) ==
    IF a.kind = "NaN" \/ b.kind = "NaN" THEN NaN
    ELSE IF a.kind = "Infinity" \/ b.kind = "Infinity"
         THEN IF (a.kind = "finite" /\ a.mantissa = <<0>>)
                    \/ (b.kind = "finite" /\ b.mantissa = <<0>>)
              THEN NaN
              ELSE Infinity(a.negative # b.negative)
    ELSE Eval(DecMul(a.mantissa, b.mantissa), LAMBDA product :
            RoundToDouble(a.negative # b.negative, product, a.exponent + b.exponent))

\* Math.floor(x)
MathFloor(x) ==
    IF x.kind # "finite" \/ x.exponent >= 0 THEN x
    ELSE Eval(DecShiftRight(x.mantissa, -x.exponent), LAMBDA q :
         Eval(DecMul(q, Pow2(-x.exponent)) = x.mantissa, LAMBDA whole :
             Finite(x.negative, IF x.negative /\ ~whole THEN DecAdd(q, <<1>>) ELSE q, 0)))

\* BigInt(x) of a number: a RangeError unless x is an integer
BigIntOfNumber(x) ==
    IF x.kind # "finite" THEN Threw
    ELSE IF x.exponent >= 0
         THEN Eval(DecMul(x.mantissa, Pow2(x.exponent)), LAMBDA digits :
                 Answer([negative |-> x.negative /\ digits # <<0>>, digits |-> digits]))
    ELSE Eval(DecShiftRight(x.mantissa, -x.exponent), LAMBDA q :
             IF DecMul(q, Pow2(-x.exponent)) # x.mantissa THEN Threw
             ELSE Answer([negative |-> x.negative /\ q # <<0>>, digits |-> q]))

-----------------------------------------------------------------------------
(* JavaScript strings                                                     *)

\* a JavaScript string is the sequence of its UTF-16 code units

\* the letters and digits of ASCII, each at the place of its code unit
ASCII_DIGITS == "0123456789"
ASCII_CAPITALS == "ABCDEFGHIJKLMNOPQRSTUVWXYZ"
ASCII_SMALLS == "abcdefghijklmnopqrstuvwxyz"

\* the code unit of a letter or digit c of ASCII, given as a text of one character
CodeUnit(c) ==
    IF \E i \in 1..10 : SubSeq(ASCII_DIGITS, i, i) = c
    THEN 47 + CHOOSE i \in 1..10 : SubSeq(ASCII_DIGITS, i, i) = c
    ELSE IF \E i \in 1..26 : SubSeq(ASCII_CAPITALS, i, i) = c
         THEN 64 + CHOOSE i \in 1..26 : SubSeq(ASCII_CAPITALS, i, i) = c
    ELSE 96 + CHOOSE i \in 1..26 : SubSeq(ASCII_SMALLS, i, i) = c

\* the string of a text of letters and digits of ASCII
Str(text) == <<>> \o [i \in 1..Len(text) |-> CodeUnit(SubSeq(text, i, i))]

\* the simple upper-case mappings of the Unicode Character Database (version 17.0), as
\* runs <<first, last, step, delta>>: a code point c of a run (first <= c <= last, c - first
\* a multiple of step) maps to c + delta

UpperCaseRuns ==
    <<<<97, 122, 1, -32>>, <<181, 181, 1, 743>>, <<224, 246, 1, -32>>,
      <<248, 254, 1, -32>>, <<255, 255, 1, 121>>, <<257, 303, 2, -1>>,
      <<305, 305, 1, -232>>, <<307, 311, 2, -1>>, <<314, 328, 2, -1>>,
      <<331, 375, 2, -1>>, <<378, 382, 2, -1>>, <<383, 383, 1, -300>>,
      <<384, 384, 1, 195>>, <<387, 389, 2, -1>>, <<392, 392, 1, -1>>,
      <<396, 396, 1, -1>>, <<402, 402, 1, -1>>, <<405, 405, 1, 97>>, <<409, 409, 1, -1>>,
      <<410, 410, 1, 163>>, <<411, 411, 1, 42561>>, <<414, 414, 1, 130>>,
      <<417, 421, 2, -1>>, <<424, 424, 1, -1>>, <<429, 429, 1, -1>>, <<432, 432, 1, -1>>,
      <<436, 438, 2, -1>>, <<441, 441, 1, -1>>, <<445, 445, 1, -1>>, <<447, 447, 1, 56>>,
      <<453, 453, 1, -1>>, <<454, 454, 1, -2>>, <<456, 456, 1, -1>>, <<457, 457, 1, -2>>,
      <<459, 459, 1, -1>>, <<460, 460, 1, -2>>, <<462, 476, 2, -1>>,
      <<477, 477, 1, -79>>, <<479, 495, 2, -1>>, <<498, 498, 1, -1>>,
      <<499, 499, 1, -2>>, <<501, 501, 1, -1>>, <<505, 543, 2, -1>>, <<547, 563, 2, -1>>,
      <<572, 572, 1, -1>>, <<575, 576, 1, 10815>>, <<578, 578, 1, -1>>,
      <<583, 591, 2, -1>>, <<592, 592, 1, 10783>>, <<593, 593, 1, 10780>>,
      <<594, 594, 1, 10782>>, <<595, 595, 1, -210>>, <<596, 596, 1, -206>>,
      <<598, 599, 1, -205>>, <<601, 601, 1, -202>>, <<603, 603, 1, -203>>,
      <<604, 604, 1, 42319>>, <<608, 608, 1, -205>>, <<609, 609, 1, 42315>>,
      <<611, 611, 1, -207>>, <<612, 612, 1, 42343>>, <<613, 613, 1, 42280>>,
      <<614, 614, 1, 42308>>, <<616, 616, 1, -209>>, <<617, 617, 1, -211>>,
      <<618, 618, 1, 42308>>, <<619, 619, 1, 10743>>, <<620, 620, 1, 42305>>,
      <<623, 623, 1, -211>>, <<625, 625, 1, 10749>>, <<626, 626, 1, -213>>,
      <<629, 629, 1, -214>>, <<637, 637, 1, 10727>>, <<640, 640, 1, -218>>,
      <<642, 642, 1, 42307>>, <<643, 643, 1, -218>>, <<647, 647, 1, 42282>>,
      <<648, 648, 1, -218>>, <<649, 649, 1, -69>>, <<650, 651, 1, -217>>,
      <<652, 652, 1, -71>>, <<658, 658, 1, -219>>, <<669, 669, 1, 42261>>,
      <<670, 670, 1, 42258>>, <<837, 837, 1, 84>>, <<881, 883, 2, -1>>,
      <<887, 887, 1, -1>>, <<891, 893, 1, 130>>, <<940, 940, 1, -38>>,
      <<941, 943, 1, -37>>, <<945, 961, 1, -32>>, <<962, 962, 1, -31>>,
      <<963, 971, 1, -32>>, <<972, 972, 1, -64>>, <<973, 974, 1, -63>>,
      <<976, 976, 1, -62>>, <<977, 977, 1, -57>>, <<981, 981, 1, -47>>,
      <<982, 982, 1, -54>>, <<983, 983, 1, -8>>, <<985, 1007, 2, -1>>,
      <<1008, 1008, 1, -86>>, <<1009, 1009, 1, -80>>, <<1010, 1010, 1, 7>>,
      <<1011, 1011, 1, -116>>, <<1013, 1013, 1, -96>>, <<1016, 1016, 1, -1>>,
      <<1019, 1019, 1, -1>>, <<1072, 1103, 1, -32>>, <<1104, 1119, 1, -80>>,
      <<1121, 1153, 2, -1>>, <<1163, 1215, 2, -1>>, <<1218, 1230, 2, -1>>,
      <<1231, 1231, 1, -15>>, <<1233, 1327, 2, -1>>, <<1377, 1414, 1, -48>>,
      <<4304, 4346, 1, 3008>>, <<4349, 4351, 1, 3008>>, <<5112, 5117, 1, -8>>,
      <<7296, 7296, 1, -6254>>, <<7297, 7297, 1, -6253>>, <<7298, 7298, 1, -6244>>,
      <<7299, 7300, 1, -6242>>, <<7301, 7301, 1, -6243>>, <<7302, 7302, 1, -6236>>,
      <<7303, 7303, 1, -6181>>, <<7304, 7304, 1, 35266>>, <<7306, 7306, 1, -1>>,
      <<7545, 7545, 1, 35332>>, <<7549, 7549, 1, 3814>>, <<7566, 7566, 1, 35384>>,
      <<7681, 7829, 2, -1>>, <<7835, 7835, 1, -59>>, <<7841, 7935, 2, -1>>,
      <<7936, 7943, 1, 8>>, <<7952, 7957, 1, 8>>, <<7968, 7975, 1, 8>>,
      <<7984, 7991, 1, 8>>, <<8000, 8005, 1, 8>>, <<8017, 8023, 2, 8>>,
      <<8032, 8039, 1, 8>>, <<8048, 8049, 1, 74>>, <<8050, 8053, 1, 86>>,
      <<8054, 8055, 1, 100>>, <<8056, 8057, 1, 128>>, <<8058, 8059, 1, 112>>,
      <<8060, 8061, 1, 126>>, <<8112, 8113, 1, 8>>, <<8126, 8126, 1, -7205>>,
      <<8144, 8145, 1, 8>>, <<8160, 8161, 1, 8>>, <<8165, 8165, 1, 7>>,
      <<8526, 8526, 1, -28>>, <<8560, 8575, 1, -16>>, <<8580, 8580, 1, -1>>,
      <<9424, 9449, 1, -26>>, <<11312, 11359, 1, -48>>, <<11361, 11361, 1, -1>>,
      <<11365, 11365, 1, -10795>>, <<11366, 11366, 1, -10792>>, <<11368, 11372, 2, -1>>,
      <<11379, 11379, 1, -1>>, <<11382, 11382, 1, -1>>, <<11393, 11491, 2, -1>>,
      <<11500, 11502, 2, -1>>, <<11507, 11507, 1, -1>>, <<11520, 11557, 1, -7264>>,
      <<11559, 11559, 1, -7264>>, <<11565, 11565, 1, -7264>>, <<42561, 42605, 2, -1>>,
      <<42625, 42651, 2, -1>>, <<42787, 42799, 2, -1>>, <<42803, 42863, 2, -1>>,
      <<42874, 42876, 2, -1>>, <<42879, 42887, 2, -1>>, <<42892, 42892, 1, -1>>,
      <<42897, 42899, 2, -1>>, <<42900, 42900, 1, 48>>, <<42903, 42921, 2, -1>>,
      <<42933, 42947, 2, -1>>, <<42952, 42954, 2, -1>>, <<42957, 42971, 2, -1>>,
      <<42998, 42998, 1, -1>>, <<43859, 43859, 1, -928>>, <<43888, 43967, 1, -38864>>,
      <<65345, 65370, 1, -32>>, <<66600, 66639, 1, -40>>, <<66776, 66811, 1, -40>>,
      <<66967, 66977, 1, -39>>, <<66979, 66993, 1, -39>>, <<66995, 67001, 1, -39>>,
      <<67003, 67004, 1, -39>>, <<68800, 68850, 1, -64>>, <<68976, 68997, 1, -32>>,
      <<71872, 71903, 1, -32>>, <<93792, 93823, 1, -32>>, <<93883, 93907, 1, -27>>,
      <<125218, 125251, 1, -34>>>>

\* the upper-case mappings of SpecialCasing.txt to several code points, as pairs
\* <<code point, mapping>>

UpperCaseSpecial ==
    <<<<223, <<83, 83>>>>, <<329, <<700, 78>>>>, <<496, <<74, 780>>>>,
      <<912, <<921, 776, 769>>>>, <<944, <<933, 776, 769>>>>, <<1415, <<1333, 1362>>>>,
      <<7830, <<72, 817>>>>, <<7831, <<84, 776>>>>, <<7832, <<87, 778>>>>,
      <<7833, <<89, 778>>>>, <<7834, <<65, 702>>>>, <<8016, <<933, 787>>>>,
      <<8018, <<933, 787, 768>>>>, <<8020, <<933, 787, 769>>>>,
      <<8022, <<933, 787, 834>>>>, <<8064, <<7944, 921>>>>, <<8065, <<7945, 921>>>>,
      <<8066, <<7946, 921>>>>, <<8067, <<7947, 921>>>>, <<8068, <<7948, 921>>>>,
      <<8069, <<7949, 921>>>>, <<8070, <<7950, 921>>>>, <<8071, <<7951, 921>>>>,
      <<8072, <<7944, 921>>>>, <<8073, <<7945, 921>>>>, <<8074, <<7946, 921>>>>,
      <<8075, <<7947, 921>>>>, <<8076, <<7948, 921>>>>, <<8077, <<7949, 921>>>>,
      <<8078, <<7950, 921>>>>, <<8079, <<7951, 921>>>>, <<8080, <<7976, 921>>>>,
      <<8081, <<7977, 921>>>>, <<8082, <<7978, 921>>>>, <<8083, <<7979, 921>>>>,
      <<8084, <<7980, 921>>>>, <<8085, <<7981, 921>>>>, <<8086, <<7982, 921>>>>,
      <<8087, <<7983, 921>>>>, <<8088, <<7976, 921>>>>, <<8089, <<7977, 921>>>>,
      <<8090, <<7978, 921>>>>, <<8091, <<7979, 921>>>>, <<8092, <<7980, 921>>>>,
      <<8093, <<7981, 921>>>>, <<8094, <<7982, 921>>>>, <<8095, <<7983, 921>>>>,
      <<8096, <<8040, 921>>>>, <<8097, <<8041, 921>>>>, <<8098, <<8042, 921>>>>,
      <<8099, <<8043, 921>>>>, <<8100, <<8044, 921>>>>, <<8101, <<8045, 921>>>>,
      <<8102, <<8046, 921>>>>, <<8103, <<8047, 921>>>>, <<8104, <<8040, 921>>>>,
      <<8105, <<8041, 921>>>>, <<8106, <<8042, 921>>>>, <<8107, <<8043, 921>>>>,
      <<8108, <<8044, 921>>>>, <<8109, <<8045, 921>>>>, <<8110, <<8046, 921>>>>,
      <<8111, <<8047, 921>>>>, <<8114, <<8122, 921>>>>, <<8115, <<913, 921>>>>,
      <<8116, <<902, 921>>>>, <<8118, <<913, 834>>>>, <<8119, <<913, 834, 921>>>>,
      <<8124, <<913, 921>>>>, <<8130, <<8138, 921>>>>, <<8131, <<919, 921>>>>,
      <<8132, <<905, 921>>>>, <<8134, <<919, 834>>>>, <<8135, <<919, 834, 921>>>>,
      <<8140, <<919, 921>>>>, <<8146, <<921, 776, 768>>>>, <<8147, <<921, 776, 769>>>>,
      <<8150, <<921, 834>>>>, <<8151, <<921, 776, 834>>>>, <<8162, <<933, 776, 768>>>>,
      <<8163, <<933, 776, 769>>>>, <<8164, <<929, 787>>>>, <<8166, <<933, 834>>>>,
      <<8167, <<933, 776, 834>>>>, <<8178, <<8186, 921>>>>, <<8179, <<937, 921>>>>,
      <<8180, <<911, 921>>>>, <<8182, <<937, 834>>>>, <<8183, <<937, 834, 921>>>>,
      <<8188, <<937, 921>>>>, <<64256, <<70, 70>>>>, <<64257, <<70, 73>>>>,
      <<64258, <<70, 76>>>>, <<64259, <<70, 70, 73>>>>, <<64260, <<70, 70, 76>>>>,
      <<64261, <<83, 84>>>>, <<64262, <<83, 84>>>>, <<64275, <<1348, 1350>>>>,
      <<64276, <<1348, 1333>>>>, <<64277, <<1348, 1339>>>>, <<64278, <<1358, 1350>>>>,
      <<64279, <<1348, 1341>>>>>>

\* the upper case of a code point, as a sequence of code points
UpperCaseOf(c) ==
    IF \E i \in 1..Len(UpperCaseSpecial) : UpperCaseSpecial[i][1] = c
    THEN UpperCaseSpecial[CHOOSE i \in 1..Len(UpperCaseSpecial) :
                              UpperCaseSpecial[i][1] = c][2]
    ELSE IF \E i \in 1..Len(UpperCaseRuns) :
                /\ UpperCaseRuns[i][1] <= c
                /\ c <= UpperCaseRuns[i][2]
                /\ (c - UpperCaseRuns[i][1]) % UpperCaseRuns[i][3] = 0
         THEN <<c + UpperCaseRuns[CHOOSE i \in 1..Len(UpperCaseRuns) :
                                      /\ UpperCaseRuns[i][1] <= c
                                      /\ c <= UpperCaseRuns[i][2]
                                      /\ (c - UpperCaseRuns[i][1]) % UpperCaseRuns[i][3] = 0]
                                  [4]>>
    ELSE <<c>>

IsHighSurrogate(u) == 55296 <= u /\ u <= 56319
IsLowSurrogate(u) == 56320 <= u /\ u <= 57343

\* the code units of a code point
CodeUnitsOf(c) ==
    IF c < 65536 THEN <<c>>
    ELSE <<55296 + ((c - 65536) \div 1024), 56320 + ((c - 65536) % 1024)>>

\* the upper case of the code point that begins at place i of s; nothing at the second
\* unit of a surrogate pair
UpperCaseAt(s, i) ==
    IF i > 1 /\ IsLowSurrogate(s[i]) /\ IsHighSurrogate(s[i - 1]) THEN <<>>
    ELSE IF i < Len(s) /\ IsHighSurrogate(s[i]) /\ IsLowSurrogate(s[i + 1])
         THEN CodeUnitsOf(UpperCaseOf(65536 + (s[i] - 55296) * 1024 + (s[i + 1] - 56320))[1])
    ELSE UpperCaseOf(s[i])

\* the upper case of the places lo..hi of s
RECURSIVE UpperCaseBetween(_, _, _)
UpperCaseBetween(s, lo, hi) ==
    IF lo > hi THEN <<>>
    ELSE IF lo = hi THEN UpperCaseAt(s, lo)
    ELSE UpperCaseBetween(s, lo, (lo + hi) \div 2)
            \o UpperCaseBetween(s, (lo + hi) \div 2 + 1, hi)

\* symbol.toUpperCase()
toUpperCase(symbol) == UpperCaseBetween(symbol, 1, Len(symbol))

\* a value that is undefined or a string
Undefined == [type |-> "undefined", text |-> <<>>]
StringValue(text) == [type |-> "string", text |-> text]

\* the text without the white space and line terminators at its ends
TrimString(text) ==
    LET IsStrWhiteSpace(u) ==
            \/ u \in {9, 10, 11, 12, 13, 32, 160, 5760, 8232, 8233, 8239, 8287, 12288,
                       65279}
            \/ (8192 <= u /\ u <= 8202)
    IN  IF \A i \in 1..Len(text) : IsStrWhiteSpace(text[i]) THEN <<>>
        ELSE SubSeq(text,
                    CHOOSE i \in 1..Len(text) :
                        ~IsStrWhiteSpace(text[i])
                            /\ \A j \in 1..(i - 1) : IsStrWhiteSpace(text[j]),
                    CHOOSE i \in 1..Len(text) :
                        ~IsStrWhiteSpace(text[i])
                            /\ \A j \in (i + 1)..Len(text) : IsStrWhiteSpace(text[j]))

\* the value of a digit 0-9, a-z or A-Z, and 36 for any other code unit
DigitValue(u) ==
    IF 48 <= u /\ u <= 57 THEN u - 48
    ELSE IF 97 <= u /\ u <= 122 THEN u - 87
    ELSE IF 65 <= u /\ u <= 90 THEN u - 55
    ELSE 36

\* the number that the digits at the places lo..hi of text write in the radix
RECURSIVE RadixValue(_, _, _, _)
RadixValue(text, radix, lo, hi) ==
    IF lo = hi THEN Dec(DigitValue(text[lo]))
    ELSE Eval(RadixValue(text, radix, lo, (lo + hi) \div 2), LAMBDA high :
         Eval(RadixValue(text, radix, (lo + hi) \div 2 + 1, hi), LAMBDA low :
         Eval(DecPow(Dec(radix), hi - (lo + hi) \div 2), LAMBDA weight :
             DecAdd(DecMul(high, weight), low))))

\* StringToBigInt(text): the trimmed text is empty (0n), decimal digits with an optional
\* sign, or 0x, 0o, 0b (in either case) and digits of that radix; anything else is a
\* SyntaxError
StringToBigInt(text) ==
    LET trimmed == TrimString(text)
        radix == IF Len(trimmed) < 2 \/ trimmed[1] # 48 THEN 10
                 ELSE IF trimmed[2] \in {120, 88} THEN 16
                 ELSE IF trimmed[2] \in {111, 79} THEN 8
                 ELSE IF trimmed[2] \in {98, 66} THEN 2
                 ELSE 10
        signed == radix = 10 /\ trimmed[1] \in {43, 45}
        first == IF radix # 10 THEN 3 ELSE IF signed THEN 2 ELSE 1
    IN  IF trimmed = <<>> THEN Answer([negative |-> FALSE, digits |-> <<0>>])
        ELSE IF first > Len(trimmed)
                  \/ \E i \in first..Len(trimmed) : DigitValue(trimmed[i]) >= radix
             THEN Threw
        ELSE Eval(DecStrip(RadixValue(trimmed, radix, first, Len(trimmed))), LAMBDA digits :
                 Answer([negative |-> trimmed[1] = 45 /\ digits # <<0>>,
                         digits |-> digits]))

\* BigInt(value) of a string or undefined: undefined is a TypeError
BigIntOfValue(value) ==
    IF value.type = "undefined" THEN Threw ELSE StringToBigInt(value.text)

-----------------------------------------------------------------------------
(* Data model                                                              *)

\* a strategy as the frontend's prepareStrategy builds it
BaseStrategy ==
    [priceFeedId |-> 1, triggerPrice |-> 50, triggerAbove |-> TRUE,
     tokenIn |-> 1, tokenOut |-> 2, amountIn |-> 0, isActive |-> TRUE,
     lastExecuted |-> 0, cooldownPeriod |-> MAX_AGE + 1]

\* strategies that pass _isValidStrategy
ValidStrategies ==
    {BaseStrategy,
     [BaseStrategy EXCEPT !.triggerAbove = FALSE],
     [BaseStrategy EXCEPT !.isActive = FALSE],
     [BaseStrategy EXCEPT !.lastExecuted = StartTime + 1],
     [BaseStrategy EXCEPT !.cooldownPeriod = 0],
     [BaseStrategy EXCEPT !.cooldownPeriod = MAX_UINT256, !.lastExecuted = StartTime + 1],
     [BaseStrategy EXCEPT !.amountIn = 7, !.tokenIn = 2, !.tokenOut = 1]}

\* strategies that fail one rule of _isValidStrategy
InvalidStrategies ==
    {[BaseStrategy EXCEPT !.priceFeedId = 0],
     [BaseStrategy EXCEPT !.triggerPrice = 0],
     [BaseStrategy EXCEPT !.tokenIn = 0],
     [BaseStrategy EXCEPT !.tokenOut = 0]}

Strategies == ValidStrategies \cup InvalidStrategies

ZeroStrategy ==
    [priceFeedId |-> 0, triggerPrice |-> 0, triggerAbove |-> FALSE,
     tokenIn |-> 0, tokenOut |-> 0, amountIn |-> 0, isActive |-> FALSE,
     lastExecuted |-> 0, cooldownPeriod |-> 0]

\* the value of an unset mapping slot
ZeroAgent ==
    [owner |-> 0, ensNode |-> 0, ensName |-> "", strategy |-> ZeroStrategy,
     createdAt |-> 0, exists |-> FALSE]

\* keccak256(abi.encodePacked(baseNode, keccak256(ensLabel))): injective on labels
EnsNodeOf(ensLabel) == IF ensLabel = "a" THEN 11 ELSE 12

EnsNodes == {EnsNodeOf(l) : l \in Labels}

EnsNameOf(ensLabel) == ensLabel \o ".yourdomain.eth"

\* a validation that forgets the token bought
isValidStrategy_noTokenOut(strategy) ==
    /\ strategy.priceFeedId # 0
    /\ strategy.triggerPrice # 0
    /\ strategy.tokenIn # 0

_isValidStrategy(strategy) ==
    /\ strategy.priceFeedId # 0
    /\ strategy.triggerPrice # 0
    /\ strategy.tokenIn # 0
    /\ strategy.tokenOut # 0

\* the call returned nothing
NoReturn == <<>>

\* the oracle's slot of a feed that was never published (PythStructs.Price of zeros)
NoPrice == [price |-> 0, expo |-> 0, publishTime |-> 0]

Call(op, sender, agentId, result, ret) ==
    [op |-> op, sender |-> sender, agentId |-> agentId, result |-> result, ret |-> ret]

\* no result yet; a result is what the promise of executeAgentSwap resolves to, threw
\* stands for a rejected promise
NoResult ==
    [returned |-> FALSE, threw |-> FALSE, success |-> FALSE, error |-> "", txHash |-> ""]

NoConfig ==
    [fromToken |-> <<>>, toToken |-> <<>>, amount |-> Finite(FALSE, <<0>>, 0), chainId |-> 0,
     minExpectedOutput |-> <<>>]

\* executeAgentSwap before it is invoked
SwapIdle ==
    [pc |-> "idle", config |-> NoConfig, fromTokenAddress |-> <<>>, toTokenAddress |-> <<>>,
     amountWei |-> [negative |-> FALSE, digits |-> <<0>>], balance |-> <<0>>,
     quote |-> <<0>>, allowance |-> <<0>>, swapTx |-> [value |-> Undefined, gas |-> NaN],
     calls |-> <<>>, result |-> NoResult]

PermissionTypes == {"execute_trigger", "update_strategy", "deactivate", "all"}

\* the signers whose grants localStorage holds, and the agent's owner
Signers == {2, 3}
AgentOwner == 1

\* localStorage.getItem(key) === null
NoEntry == [stored |-> FALSE, permissions |-> {}, expiresAt |-> 0]

\* useAgentPermissions() called without its optional agentId
NoAgentId == 0

\* the agentId of the hooks through which the calls are made
HookAgentIds == {NoAgentId, 1}

NoPermCall == [op |-> "none", agentId |-> NoAgentId, signer |-> 0, permission |-> "",
               window |-> TRUE, ret |-> FALSE, threw |-> FALSE]

\* an empty localStorage, keyed by the hook's agentId, the signer and the permission
PermsEmpty ==
    [storage |-> [k \in HookAgentIds \X Signers \X PermissionTypes |-> NoEntry],
     clock |-> 1, last |-> NoPermCall]

Init ==
    /\ agents = [id \in AgentIds |-> ZeroAgent]
    /\ userAgents = [u \in Addresses |-> <<>>]
    /\ ensNodeToAgentId = [n \in EnsNodes |-> 0]
    /\ agentCount = 0
    /\ pythPrices = [f \in PriceFeedIds |-> NoPrice]
    /\ now = StartTime
    /\ ticks = 0
    /\ last = Call("constructor", 0, 0, "ok", NoReturn)
    /\ logs = <<>>
    /\ executedAt = [id \in AgentIds |-> 0]
    /\ deactivated = [id \in AgentIds |-> FALSE]
    /\ untouched = [id \in AgentIds |-> FALSE]
    /\ swap = SwapIdle
    /\ perms = PermsEmpty

-----------------------------------------------------------------------------
(* The Pyth oracle (IPyth), as the registry uses it                        *)

PythPrice(reading, publishTime) ==
    [price |-> reading[1], expo |-> reading[2], publishTime |-> publishTime]

\* IPyth.updatePriceFeeds: a reading is stored when it is newer than the stored one
pythAfterUpdate(prices, updateData) ==
    IF Len(updateData) = 0 THEN prices
    ELSE IF prices[1].publishTime >= now THEN prices
    ELSE [prices EXCEPT ![1] = PythPrice(updateData[1], now)]

\* IPyth.getPriceNoOlderThan(id, age): the error it reverts with, or "ok"
\* the read without the age test, as getPriceUnsafe would make it
getPriceNoOlderThanError_noAge(prices, id, age) ==
    IF prices[id].publishTime = 0 THEN "PriceFeedNotFound" ELSE "ok"

getPriceNoOlderThanError(prices, id, age) ==
    IF prices[id].publishTime = 0 THEN "PriceFeedNotFound"
    ELSE IF (IF now >= prices[id].publishTime
             THEN now - prices[id].publishTime
             ELSE prices[id].publishTime - now) > age THEN "StalePrice"
    ELSE "ok"

\* IPyth.getPrice(id) as checkTrigger reads it: the error it reverts with, or "ok"; it is
\* getPriceNoOlderThan(id, getValidTimePeriod()), the period being the oracle's own setting
getPriceError(prices, id, validTimePeriod) ==
    IF prices[id].publishTime = 0 THEN "PriceFeedNotFound"
    ELSE IF (IF now >= prices[id].publishTime
             THEN now - prices[id].publishTime
             ELSE prices[id].publishTime - now) > validTimePeriod THEN "StalePrice"
    ELSE "ok"

-----------------------------------------------------------------------------
(* Price conversion and trigger comparison of checkAndExecuteTrigger       *)

\* uint256(uint64(price.price)) for the non-negative prices of Readings
execUint64(price) == IF price >= 0 THEN Dec(price) ELSE DecSub(TWO_64, Dec(-price))

\* lines 203-207: the checked power 10 ** |expo| and the checked product of the
\* conversion can overflow
execCurrentPriceResult(price) ==
    IF price.expo < 0
    THEN (IF PowOverflows(-price.expo) THEN "Panic"
          ELSE IF MulPow10Overflows(execUint64(price.price), -price.expo) THEN "Panic"
          ELSE "ok")
    ELSE (IF PowOverflows(price.expo) THEN "Panic" ELSE "ok")

\* lines 202-207
execCurrentPrice(price) ==
    IF price.expo < 0
    THEN DecMulPow10(execUint64(price.price), -price.expo)
    ELSE DecDivPow10(execUint64(price.price), price.expo)

\* lines 210-212
execTriggerMet(strategy, currentPrice) ==
    IF strategy.triggerAbove
    THEN ~DecLt(currentPrice, U256Dec(strategy.triggerPrice))
    ELSE ~DecLt(U256Dec(strategy.triggerPrice), currentPrice)

(* Price conversion and trigger comparison of checkTrigger                 *)

viewUint64(price) == IF price >= 0 THEN Dec(price) ELSE DecSub(TWO_64, Dec(-price))

\* lines 269-273: the checked power 10 ** |expo| and the checked product of the
\* conversion can overflow
viewPriceValueResult(price) ==
    IF price.expo < 0
    THEN (IF PowOverflows(-price.expo) THEN "Panic"
          ELSE IF MulPow10Overflows(viewUint64(price.price), -price.expo) THEN "Panic"
          ELSE "ok")
    ELSE (IF PowOverflows(price.expo) THEN "Panic" ELSE "ok")

\* lines 268-273
viewPriceValue(price) ==
    IF price.expo < 0
    THEN DecMulPow10(viewUint64(price.price), -price.expo)
    ELSE DecDivPow10(viewUint64(price.price), price.expo)

\* a comparison that excludes the trigger price itself
viewTriggerMet_strict(strategy, priceValue) ==
    IF strategy.triggerAbove
    THEN DecLt(U256Dec(strategy.triggerPrice), priceValue)
    ELSE DecLt(priceValue, U256Dec(strategy.triggerPrice))

\* lines 275-277
viewTriggerMet(strategy, priceValue) ==
    IF strategy.triggerAbove
    THEN ~DecLt(priceValue, U256Dec(strategy.triggerPrice))
    ELSE ~DecLt(U256Dec(strategy.triggerPrice), priceValue)

-----------------------------------------------------------------------------
(* Outcome of each call: "ok" or the error it reverts with                 *)

\* a creation that does not look for an existing agent
createAgentResult_noExistsCheck(agentId, strategy) ==
    IF ~_isValidStrategy(strategy) THEN "InvalidStrategy" ELSE "ok"

createAgentResult(agentId, strategy) ==
    IF agents[agentId].exists THEN "Agent already exists"
    ELSE IF ~_isValidStrategy(strategy) THEN "InvalidStrategy"
    ELSE "ok"

\* an update that does not compare the caller with the owner
updateStrategyResult_noOwnerCheck(sender, agentId, newStrategy) ==
    IF ~agents[agentId].exists THEN "AgentNotFound"
    ELSE IF ~_isValidStrategy(newStrategy) THEN "InvalidStrategy"
    ELSE "ok"

\* an update that validates the strategy before it compares the caller with the owner
updateStrategyResult_validityFirst(sender, agentId, newStrategy) ==
    IF ~agents[agentId].exists THEN "AgentNotFound"
    ELSE IF ~_isValidStrategy(newStrategy) THEN "InvalidStrategy"
    ELSE IF agents[agentId].owner # sender THEN "Unauthorized"
    ELSE "ok"

updateStrategyResult(sender, agentId, newStrategy) ==
    IF ~agents[agentId].exists THEN "AgentNotFound"
    ELSE IF agents[agentId].owner # sender THEN "Unauthorized"
    ELSE IF ~_isValidStrategy(newStrategy) THEN "InvalidStrategy"
    ELSE "ok"

\* a deactivation that rejects an agent that is already inactive
deactivateAgentResult_onceOnly(sender, agentId) ==
    IF ~agents[agentId].exists THEN "AgentNotFound"
    ELSE IF agents[agentId].owner # sender THEN "Unauthorized"
    ELSE IF ~agents[agentId].strategy.isActive THEN "Strategy not active"
    ELSE "ok"

deactivateAgentResult(sender, agentId) ==
    IF ~agents[agentId].exists THEN "AgentNotFound"
    ELSE IF agents[agentId].owner # sender THEN "Unauthorized"
    ELSE "ok"

\* block.timestamp < strategy.lastExecuted + strategy.cooldownPeriod
cooldownResult(strategy) ==
    IF AddOverflows(strategy.lastExecuted, strategy.cooldownPeriod) THEN "Panic"
    ELSE IF U256Lt(now, strategy.lastExecuted + strategy.cooldownPeriod)
         THEN "CooldownNotExpired"
    ELSE "ok"

checkAndExecuteTriggerResult(agentId, updateData) ==
    LET agent == agents[agentId]
        strategy == agent.strategy
        prices == pythAfterUpdate(pythPrices, updateData)
    IN  IF ~agent.exists THEN "AgentNotFound"
        ELSE IF ~strategy.isActive THEN "Strategy not active"
        ELSE IF getPriceNoOlderThanError(prices, strategy.priceFeedId, MAX_AGE) # "ok"
             THEN getPriceNoOlderThanError(prices, strategy.priceFeedId, MAX_AGE)
        ELSE IF prices[strategy.priceFeedId].publishTime = 0 THEN "PriceNotUpdated"
        ELSE IF cooldownResult(strategy) # "ok" THEN cooldownResult(strategy)
        ELSE IF execCurrentPriceResult(prices[strategy.priceFeedId]) # "ok" THEN "Panic"
        ELSE IF ~execTriggerMet(strategy, execCurrentPrice(prices[strategy.priceFeedId]))
             THEN "TriggerNotMet"
        ELSE "ok"

\* checkTrigger with the active gate of checkAndExecuteTrigger
checkTriggerResult_activeGate(agentId, validTimePeriod) ==
    LET priceError == getPriceError(pythPrices, agents[agentId].strategy.priceFeedId,
                                    validTimePeriod)
    IN  IF ~agents[agentId].exists THEN "AgentNotFound"
        ELSE IF ~agents[agentId].strategy.isActive THEN "Strategy not active"
        ELSE IF priceError # "ok" THEN priceError
        ELSE viewPriceValueResult(pythPrices[agents[agentId].strategy.priceFeedId])

\* lines 262-275: the existence test, the oracle's getPrice, the conversion
checkTriggerResult(agentId, validTimePeriod) ==
    LET priceError == getPriceError(pythPrices, agents[agentId].strategy.priceFeedId,
                                    validTimePeriod)
    IN  IF ~agents[agentId].exists THEN "AgentNotFound"
        ELSE IF priceError # "ok" THEN priceError
        ELSE viewPriceValueResult(pythPrices[agents[agentId].strategy.priceFeedId])

-----------------------------------------------------------------------------
(* Transactions                                                            *)

\* an execution that forgets to stamp the agent
markExecuted_skipped(agentId) == agents

\* an execution that also switches the strategy off
markExecuted_oneShot(agentId) ==
    [agents EXCEPT ![agentId].strategy.lastExecuted = now,
                   ![agentId].strategy.isActive = FALSE]

\* an execution that stamps every existing agent
markExecuted_all(agentId) ==
    [id \in AgentIds |->
        IF agents[id].exists
        THEN [agents[id] EXCEPT !.strategy.lastExecuted = now]
        ELSE agents[id]]

\* agent.strategy.lastExecuted = block.timestamp
markExecuted(agentId) ==
    [agents EXCEPT ![agentId].strategy.lastExecuted = now]

\* userAgents[msg.sender].push(agentId)
\* a push that puts the new id in front of the owner's list
pushUserAgent_front(sender, agentId) ==
    [userAgents EXCEPT ![sender] = <<agentId>> \o @]

pushUserAgent(sender, agentId) ==
    [userAgents EXCEPT ![sender] = Append(@, agentId)]

\* emit TriggerExecuted(agentId, strategy.priceFeedId, currentPrice, strategy.triggerPrice,
\* block.timestamp)
\* the event stamped with the lastExecuted of the memory copy, read before the write
TriggerExecutedEvent_oldTimestamp(agentId, strategy, currentPrice) ==
    [event |-> "TriggerExecuted", agentId |-> agentId,
     priceFeedId |-> strategy.priceFeedId, currentPrice |-> currentPrice,
     triggerPrice |-> strategy.triggerPrice, timestamp |-> strategy.lastExecuted]

TriggerExecutedEvent(agentId, strategy, currentPrice) ==
    [event |-> "TriggerExecuted", agentId |-> agentId,
     priceFeedId |-> strategy.priceFeedId, currentPrice |-> currentPrice,
     triggerPrice |-> strategy.triggerPrice, timestamp |-> now]

\* what getAgent returns for an existing agent
getAgentReturn(agentId) == agents[agentId]

Reverted(call) ==
    /\ last' = call
    /\ logs' = <<>>
    /\ UNCHANGED <<client, agents, userAgents, ensNodeToAgentId, agentCount, pythPrices,
                   now, ticks, executedAt, deactivated, untouched>>

createAgent(sender, agentId, ensLabel, strategy) ==
    LET result == createAgentResult(agentId, strategy)
        ensNode == EnsNodeOf(ensLabel)
    IN  IF result # "ok"
        THEN Reverted(Call("createAgent", sender, agentId, result, NoReturn))
        ELSE /\ agents' = [agents EXCEPT ![agentId] =
                    [owner |-> sender, ensNode |-> ensNode,
                     ensName |-> EnsNameOf(ensLabel), strategy |-> strategy,
                     createdAt |-> now, exists |-> TRUE]]
             /\ userAgents' = pushUserAgent(sender, agentId)
             /\ ensNodeToAgentId' = [ensNodeToAgentId EXCEPT ![ensNode] = agentId]
             /\ agentCount' = agentCount + 1
             /\ logs' = <<[event |-> "AgentCreated", agentId |-> agentId,
                           owner |-> sender, ensNode |-> ensNode,
                           ensName |-> EnsNameOf(ensLabel)]>>
             /\ last' = Call("createAgent", sender, agentId, "ok", <<ensNode>>)
             /\ UNCHANGED <<client, pythPrices, now, ticks, executedAt, deactivated, untouched>>

updateStrategy(sender, agentId, newStrategy) ==
    LET result == updateStrategyResult(sender, agentId, newStrategy)
    IN  IF result # "ok"
        THEN Reverted(Call("updateStrategy", sender, agentId, result, NoReturn))
        ELSE /\ agents' = [agents EXCEPT ![agentId].strategy = newStrategy]
             /\ logs' = <<[event |-> "StrategyUpdated", agentId |-> agentId,
                           priceFeedId |-> newStrategy.priceFeedId,
                           triggerPrice |-> newStrategy.triggerPrice,
                           triggerAbove |-> newStrategy.triggerAbove]>>
             /\ last' = Call("updateStrategy", sender, agentId, "ok", NoReturn)
             /\ untouched' = [untouched EXCEPT ![agentId] = FALSE]
             /\ UNCHANGED <<client, userAgents, ensNodeToAgentId, agentCount, pythPrices,
                            now, ticks, executedAt, deactivated>>

\* checkAndExecuteTrigger that only the agent's owner may call
checkAndExecuteTrigger_ownerOnly(sender, agentId, updateData) ==
    LET result == IF agents[agentId].exists /\ agents[agentId].owner # sender
                  THEN "Unauthorized"
                  ELSE checkAndExecuteTriggerResult(agentId, updateData)
        strategy == agents[agentId].strategy
        prices == pythAfterUpdate(pythPrices, updateData)
    IN  IF result # "ok"
        THEN Reverted(Call("checkAndExecuteTrigger", sender, agentId,
                           result, NoReturn))
        ELSE /\ pythPrices' = prices
             /\ agents' = markExecuted(agentId)
             /\ logs' = <<TriggerExecutedEvent(agentId, strategy,
                              execCurrentPrice(prices[strategy.priceFeedId]))>>
             /\ last' = Call("checkAndExecuteTrigger", sender, agentId,
                             "ok", NoReturn)
             /\ executedAt' = [executedAt EXCEPT ![agentId] = now]
             /\ untouched' = [untouched EXCEPT ![agentId] = TRUE]
             /\ UNCHANGED <<client, userAgents, ensNodeToAgentId, agentCount, now, ticks,
                            deactivated>>

checkAndExecuteTrigger(sender, agentId, updateData) ==
    LET result == checkAndExecuteTriggerResult(agentId, updateData)
        strategy == agents[agentId].strategy
        prices == pythAfterUpdate(pythPrices, updateData)
    IN  IF result # "ok"
        THEN Reverted(Call("checkAndExecuteTrigger", sender, agentId,
                           result, NoReturn))
        ELSE /\ pythPrices' = prices
             /\ agents' = markExecuted(agentId)
             /\ logs' = <<TriggerExecutedEvent(agentId, strategy,
                              execCurrentPrice(prices[strategy.priceFeedId]))>>
             /\ last' = Call("checkAndExecuteTrigger", sender, agentId,
                             "ok", NoReturn)
             /\ executedAt' = [executedAt EXCEPT ![agentId] = now]
             /\ untouched' = [untouched EXCEPT ![agentId] = TRUE]
             /\ UNCHANGED <<client, userAgents, ensNodeToAgentId, agentCount, now, ticks,
                            deactivated>>

\* deactivateAgent that clears isActive before its checks and returns where it should revert
deactivateAgent_noRevert(sender, agentId) ==
    LET result == deactivateAgentResult(sender, agentId)
    IN  /\ agents' = [agents EXCEPT ![agentId].strategy.isActive = FALSE]
        /\ logs' = IF result # "ok" THEN <<>>
                   ELSE <<[event |-> "AgentDeactivated", agentId |-> agentId]>>
        /\ last' = Call("deactivateAgent", sender, agentId, result, NoReturn)
        /\ deactivated' = IF result # "ok" THEN deactivated
                          ELSE [deactivated EXCEPT ![agentId] = TRUE]
        /\ untouched' = [untouched EXCEPT ![agentId] = FALSE]
        /\ UNCHANGED <<client, userAgents, ensNodeToAgentId, agentCount, pythPrices,
                       now, ticks, executedAt>>

deactivateAgent(sender, agentId) ==
    LET result == deactivateAgentResult(sender, agentId)
    IN  IF result # "ok"
        THEN Reverted(Call("deactivateAgent", sender, agentId, result, NoReturn))
        ELSE /\ agents' = [agents EXCEPT ![agentId].strategy.isActive = FALSE]
             /\ logs' = <<[event |-> "AgentDeactivated", agentId |-> agentId]>>
             /\ last' = Call("deactivateAgent", sender, agentId, "ok", NoReturn)
             /\ deactivated' = [deactivated EXCEPT ![agentId] = TRUE]
             /\ untouched' = [untouched EXCEPT ![agentId] = FALSE]
             /\ UNCHANGED <<client, userAgents, ensNodeToAgentId, agentCount, pythPrices,
                            now, ticks, executedAt>>

(* Views: they change no storage; the call and what it returns are recorded *)

getAgent(sender, agentId) ==
    /\ last' = IF ~agents[agentId].exists
               THEN Call("getAgent", sender, agentId, "AgentNotFound", NoReturn)
               ELSE Call("getAgent", sender, agentId, "ok", <<getAgentReturn(agentId)>>)
    /\ logs' = <<>>
    /\ UNCHANGED <<client, agents, userAgents, ensNodeToAgentId, agentCount, pythPrices,
                   now, ticks, executedAt, deactivated, untouched>>

\* checkTrigger, lines 261-280, called while the oracle's valid time period is
\* validTimePeriod
checkTrigger(sender, agentId, validTimePeriod) ==
    LET result == checkTriggerResult(agentId, validTimePeriod)
        agent == agents[agentId]
        priceValue == viewPriceValue(pythPrices[agent.strategy.priceFeedId])
    IN  /\ last' = IF result # "ok"
                   THEN Call("checkTrigger", sender, agentId, result, NoReturn)
                   ELSE Call("checkTrigger", sender, agentId, "ok",
                             <<viewTriggerMet(agent.strategy, priceValue), priceValue>>)
        /\ logs' = <<>>
        /\ UNCHANGED <<client, agents, userAgents, ensNodeToAgentId, agentCount, pythPrices,
                       now, ticks, executedAt, deactivated, untouched>>

\* getUserAgents, lines 254-256
getUserAgents(sender, user) ==
    /\ last' = Call("getUserAgents", sender, 0, "ok", <<userAgents[user]>>)
    /\ logs' = <<>>
    /\ UNCHANGED <<client, agents, userAgents, ensNodeToAgentId, agentCount, pythPrices,
                   now, ticks, executedAt, deactivated, untouched>>

(* Environment: the oracle is updated by a publisher, time advances        *)

pythUpdatePriceFeeds(updateData) ==
    /\ pythPrices' = pythAfterUpdate(pythPrices, updateData)
    /\ last' = Call("pyth.updatePriceFeeds", 0, 0, "ok", NoReturn)
    /\ logs' = <<>>
    /\ UNCHANGED <<client, agents, userAgents, ensNodeToAgentId, agentCount, now, ticks,
                   executedAt, deactivated, untouched>>

\* block.timestamp advances by a second, and by the oracle's maximal age at the second advance
TimeStep(k) == IF k = 1 THEN MAX_AGE ELSE 1

Tick ==
    /\ ticks < MaxTicks
    /\ now' = now + TimeStep(ticks)
    /\ ticks' = ticks + 1
    /\ last' = Call("tick", 0, 0, "ok", NoReturn)
    /\ logs' = <<>>
    /\ UNCHANGED <<client, agents, userAgents, ensNodeToAgentId, agentCount, pythPrices,
                   executedAt, deactivated, untouched>>

\* The calls of one agent's life: every call names agent 1, before and after its creation
LifeIds == {1}

Next ==
    \/ \E sender \in Addresses, agentId \in LifeIds, ensLabel \in {"a"},
          strategy \in Strategies :
          createAgent(sender, agentId, ensLabel, strategy)
    \/ \E sender \in Addresses, agentId \in LifeIds, newStrategy \in Strategies :
          updateStrategy(sender, agentId, newStrategy)
    \/ \E sender \in Addresses, agentId \in LifeIds, updateData \in UpdateData :
          checkAndExecuteTrigger(sender, agentId, updateData)
    \/ \E sender \in Addresses, agentId \in LifeIds : deactivateAgent(sender, agentId)
    \/ \E sender \in Addresses, agentId \in LifeIds : getAgent(sender, agentId)
    \/ \E sender \in Addresses, agentId \in LifeIds, validTimePeriod \in ValidTimePeriods :
          checkTrigger(sender, agentId, validTimePeriod)
    \/ \E updateData \in UpdateData \ {<<>>} : pythUpdatePriceFeeds(updateData)
    \/ Tick

Spec == Init /\ [][Next]_vars

(* The price conversion over a wider range of readings: one agent whose    *)
(* cooldown never blocks, readings of negative, zero and positive          *)
(* exponents, among them -8 and exponents whose power of ten leaves        *)
(* uint256.                                                                *)

PriceReadings ==
    Readings \cup {<<5, -8>>, <<21, -8>>, <<5, 2>>, <<0, 0>>, <<50, 0>>, <<-1, 0>>, <<-50, 0>>,
                   <<5, MAX_POW10 + 1>>, <<5, -(MAX_POW10 + 1)>>,
                   <<1, -MAX_POW10>>, <<5, -MAX_POW10>>, <<-1, 1>>}

PriceUpdateData == {<<>>} \cup {<<r>> : r \in PriceReadings}

PriceStrategies ==
    {[BaseStrategy EXCEPT !.cooldownPeriod = 0],
     [BaseStrategy EXCEPT !.cooldownPeriod = 0, !.triggerAbove = FALSE],
     [BaseStrategy EXCEPT !.cooldownPeriod = 0, !.triggerAbove = FALSE,
                          !.triggerPrice = MAX_UINT256]}

NextPrice ==
    \/ \E agentId \in LifeIds, strategy \in PriceStrategies :
          createAgent(1, agentId, "a", strategy)
    \/ \E agentId \in LifeIds, updateData \in PriceUpdateData :
          checkAndExecuteTrigger(2, agentId, updateData)
    \/ \E agentId \in LifeIds, validTimePeriod \in ValidTimePeriods :
          checkTrigger(2, agentId, validTimePeriod)
    \/ \E updateData \in PriceUpdateData \ {<<>>} : pythUpdatePriceFeeds(updateData)
    \/ Tick

SpecPrice == Init /\ [][NextPrice]_vars

(* The store with two agents, two owners and two labels, over a small set  *)
(* of strategies and one reading that meets the trigger, at one block time. *)

StoreStrategies == {BaseStrategy, [BaseStrategy EXCEPT !.priceFeedId = 0]}

StoreNewStrategies == {[BaseStrategy EXCEPT !.amountIn = 7, !.tokenIn = 2, !.tokenOut = 1]}

StoreUpdateData == {<<<<519, 1>>>>}

NextStore ==
    \/ \E sender \in Addresses, agentId \in AgentIds, ensLabel \in Labels,
          strategy \in StoreStrategies :
          createAgent(sender, agentId, ensLabel, strategy)
    \/ \E sender \in Addresses, agentId \in AgentIds,
          newStrategy \in StoreNewStrategies :
          updateStrategy(sender, agentId, newStrategy)
    \/ \E agentId \in AgentIds, updateData \in StoreUpdateData :
          checkAndExecuteTrigger(2, agentId, updateData)
    \/ \E sender \in Addresses, agentId \in AgentIds : deactivateAgent(sender, agentId)
    \/ \E agentId \in AgentIds : getAgent(1, agentId)
    \/ \E user \in Addresses : getUserAgents(2, user)

SpecStore == Init /\ [][NextStore]_vars

-----------------------------------------------------------------------------
(* executeAgentSwap (agent-swap-executor.ts): one asynchronous invocation.  *)
(* Each await is a position; the collaborator that is awaited answers with  *)
(* a value or throws.  Token texts are strings of UTF-16 code units (<<>>   *)
(* stands for null); the decimal texts of balances, allowances, quotes and  *)
(* minimal outputs are digit sequences, the amount is a number and the      *)
(* parsed amount a signed digit sequence.                                   *)

\* the literal of line 123 (45 characters)
NATIVE_LITERAL ==
    Str("0xEeeeeEeeeEeEeeEeEeEeeEEEeeeeEeeeeeeeEEeeEeE")

WETH_BASE_SEPOLIA ==
    Str("0x4200000000000000000000000000000000000006")
USDC_BASE_SEPOLIA ==
    Str("0x036CbD53842c5426634e7929541eC2318f3dCF7e")
DAI_BASE_SEPOLIA ==
    Str("0x50c5725949A6F0c72E6C4a641F24049A917DB0Cb")
WETH_BASE ==
    Str("0x4200000000000000000000000000000000000006")
USDC_BASE ==
    Str("0x833589fCD6eDb6E08f4c7C32D4f71b54bdA02913")
DAI_BASE ==
    Str("0x50c5725949A6F0c72E6C4a641F24049A917DB0Cb")
\* a text of 42 characters that does not begin with "0x"
UNPREFIXED_42 ==
    Str("036CbD53842c5426634e7929541eC2318f3dCF7e00")
NATIVE_ETH ==
    Str("0xEeeeeEeeeEeEeeEeEeEeeEEEeeeeEeeeeeeeEEeE")
ONEINCH_ROUTER_BASE_SEPOLIA ==
    Str("0x111111125421ca6dc452d289314280a0f8842a65")
ONEINCH_ROUTER_BASE ==
    Str("0x111111125421ca6dc452d289314280a0f8842a65")

BASE_SEPOLIA == 84532
BASE == 845845
OTHER_CHAIN == 1

\* "daı" with the dotless i (U+0131) and "uſdc" with the long s (U+017F)
DAI_DOTLESS == <<100, 97, 305>>
USDC_LONG_S == <<117, 383, 100, 99>>

FromTokens ==
    {Str("USDC"), Str("usdc"), USDC_LONG_S, Str("XYZ"), DAI_BASE_SEPOLIA, NATIVE_ETH,
     NATIVE_LITERAL, UNPREFIXED_42}
ToTokens == {Str("DAI"), DAI_DOTLESS, Str("Weth"), Str("XYZ")}
ChainIds == {BASE_SEPOLIA, BASE, OTHER_CHAIN}

\* the amounts 2, 9007, 0.5, -2 and NaN
Amounts ==
    {Finite(FALSE, <<2>>, 0), Finite(FALSE, <<9, 0, 0, 7>>, 0), Finite(FALSE, <<1>>, -1),
     Finite(TRUE, <<2>>, 0), NaN}

\* no minimal output, and the minimal output "5"
MinExpectedOutputs == {<<>>, <<5>>}

\* the balances 2 * 10^18 - 1, 2 * 10^18, 9007 * 10^18 and 9007 * 10^18 + 262144
Balances ==
    {DecSub(DecMulPow10(<<2>>, 18), <<1>>), DecMulPow10(<<2>>, 18),
     DecMulPow10(<<9, 0, 0, 7>>, 18),
     DecAdd(DecMulPow10(<<9, 0, 0, 7>>, 18), <<2, 6, 2, 1, 4, 4>>)}

\* the allowances 0 (the "0" of line 326 included), 2 * 10^18 - 1, 2 * 10^18 and
\* 9007 * 10^18 + 262144
Allowances ==
    {<<0>>, DecSub(DecMulPow10(<<2>>, 18), <<1>>), DecMulPow10(<<2>>, 18),
     DecAdd(DecMulPow10(<<9, 0, 0, 7>>, 18), <<2, 6, 2, 1, 4, 4>>)}

\* the output amounts "4" and "5" of a quote
Quotes == {<<4>>, <<5>>}

\* the value of a swap transaction: "0", "0x2386f26fc10000" (10^16), "1e16", or undefined
\* when the answer of the 1inch API has no tx.value
SwapTxValues ==
    {StringValue(Str("0")), StringValue(Str("0x2386f26fc10000")), StringValue(Str("1e16")),
     Undefined}

\* the gas of a swap transaction, which getSwapTx parses with parseInt: 200000, or NaN
SwapTxGases == {Finite(FALSE, <<2, 0, 0, 0, 0, 0>>, 0), NaN}

SwapConfigs ==
    [fromToken : FromTokens, toToken : ToTokens, amount : Amounts, chainId : ChainIds,
     minExpectedOutput : MinExpectedOutputs]

\* the tokens known on each chain, by symbol
TOKEN_ADDRESSES ==
    (BASE_SEPOLIA :> ((Str("WETH") :> WETH_BASE_SEPOLIA) @@ (Str("USDC") :> USDC_BASE_SEPOLIA)
                        @@ (Str("DAI") :> DAI_BASE_SEPOLIA)))
    @@ (BASE :> ((Str("WETH") :> WETH_BASE) @@ (Str("USDC") :> USDC_BASE)
                    @@ (Str("DAI") :> DAI_BASE)))

\* getTokenAddress(symbol, chainId): <<>> stands for null
getTokenAddress(symbol, chainId) ==
    IF chainId \notin {BASE_SEPOLIA, BASE} THEN <<>>
    ELSE LET chainTokens == TOKEN_ADDRESSES[chainId]
             upperSymbol == toUpperCase(symbol)
         IN  IF upperSymbol \in DOMAIN chainTokens THEN chainTokens[upperSymbol] ELSE <<>>

\* get1inchRouterAddress(chainId): <<>> stands for null
get1inchRouterAddress(chainId) ==
    CASE chainId = BASE_SEPOLIA -> ONEINCH_ROUTER_BASE_SEPOLIA
      [] chainId = BASE -> ONEINCH_ROUTER_BASE
      [] OTHER -> <<>>

\* token.startsWith("0x") && token.length === 42 ? token : getTokenAddress(token, chainId)
resolveToken(token, chainId) ==
    IF Len(token) = 42 /\ SubSeq(token, 1, 2) = <<48, 120>> THEN token
    ELSE getTokenAddress(token, chainId)

\* parseTokenAmount(amount, decimals): the BigInt whose decimal text is returned, or the
\* RangeError thrown by ** for a negative exponent and by BigInt() for NaN and the
\* infinities; 10^decimals exceeds every double from decimals = 309 on
parseTokenAmount(amount, decimals) ==
    IF decimals < 0 THEN Threw
    ELSE Eval(IF decimals > 308 THEN Infinity(FALSE)
              ELSE NumberOfBigInt(DecPow(<<1, 0>>, decimals)), LAMBDA multiplier :
         Eval(NumberMultiply(amount, multiplier), LAMBDA product :
         Eval(MathFloor(product), LAMBDA floored : BigIntOfNumber(floored))))

\* BigInt(a) < BigInt(b) for the decimal text a of a natural number and a parsed amount b
BigIntLt(a, b) == ~b.negative /\ DecLt(DecStrip(a), b.digits)

\* validateSwapQuote(quote, minExpectedOutput)
validateSwapQuote(quote, minExpectedOutput) ==
    ~DecLt(DecStrip(quote), DecStrip(minExpectedOutput))

\* return { success: false, error }
swapFails(error) ==
    [swap EXCEPT !.pc = "done",
                 !.result = [returned |-> TRUE, threw |-> FALSE, success |-> FALSE,
                             error |-> error, txHash |-> ""]]

\* the next collaborator is called and awaited
swapAwaits(state, callee) ==
    [state EXCEPT !.pc = callee, !.calls = Append(@, callee)]

registry == <<agents, userAgents, ensNodeToAgentId, agentCount, pythPrices, now,
              ticks, last, logs, executedAt, deactivated, untouched>>

\* lines 59-93: the call, the resolution of both tokens, the call of getTokenBalance
executeAgentSwap(config) ==
    LET fromTokenAddress == resolveToken(config.fromToken, config.chainId)
        toTokenAddress == resolveToken(config.toToken, config.chainId)
        entered == [swap EXCEPT !.config = config,
                                !.fromTokenAddress = fromTokenAddress,
                                !.toTokenAddress = toTokenAddress]
    IN  /\ swap.pc = "idle"
        /\ swap' = IF fromTokenAddress = <<>> \/ toTokenAddress = <<>>
                   THEN [entered EXCEPT !.pc = "done",
                            !.result = [returned |-> TRUE, threw |-> FALSE,
                                        success |-> FALSE,
                                        error |-> "Invalid token address", txHash |-> ""]]
                   ELSE swapAwaits(entered, "getTokenBalance")
        /\ UNCHANGED <<registry, perms>>

\* lines 89-111: the balance arrives, the amount is parsed (a RangeError goes to the catch
\* of line 187) and compared, the quote is asked
getTokenBalanceReturns(outcome) ==
    LET amountWei == parseTokenAmount(swap.config.amount, 18)
        got == [swap EXCEPT !.balance = outcome.value, !.amountWei = amountWei.value]
    IN  /\ swap.pc = "getTokenBalance"
        /\ swap' = IF outcome.threw \/ amountWei.threw THEN swapFails("thrown")
                   ELSE IF BigIntLt(outcome.value, amountWei.value)
                        THEN [got EXCEPT !.pc = "done",
                                 !.result = [returned |-> TRUE, threw |-> FALSE,
                                             success |-> FALSE,
                                             error |-> "Insufficient balance",
                                             txHash |-> ""]]
                   ELSE swapAwaits(got, "getSwapQuote")
        /\ UNCHANGED <<registry, perms>>

\* the quote validation of lines 114-120 left out
getSwapQuoteReturns_noValidation(outcome) ==
    LET got == [swap EXCEPT !.quote = outcome.value]
    IN  /\ swap.pc = "getSwapQuote"
        /\ swap' = IF outcome.threw THEN swapFails("thrown")
                   ELSE IF swap.fromTokenAddress # NATIVE_LITERAL
                        THEN IF get1inchRouterAddress(swap.config.chainId) = <<>>
                             THEN [got EXCEPT !.pc = "done",
                                      !.result = [returned |-> TRUE, threw |-> FALSE,
                                                  success |-> FALSE,
                                                  error |->
                                                    "1inch router not found for this chain",
                                                  txHash |-> ""]]
                             ELSE swapAwaits(got, "getTokenAllowance")
                   ELSE swapAwaits(got, "getSwapTx")
        /\ UNCHANGED <<registry, perms>>

\* lines 104-136 and 156: the quote arrives and is validated; for a token other than the
\* native literal the router is looked up and the allowance asked, else the swap is asked
getSwapQuoteReturns(outcome) ==
    LET got == [swap EXCEPT !.quote = outcome.value]
        min == swap.config.minExpectedOutput
    IN  /\ swap.pc = "getSwapQuote"
        /\ swap' = IF outcome.threw THEN swapFails("thrown")
                   ELSE IF min # <<>> /\ ~validateSwapQuote(outcome.value, min)
                        THEN [got EXCEPT !.pc = "done",
                                 !.result = [returned |-> TRUE, threw |-> FALSE,
                                             success |-> FALSE,
                                             error |->
                                               "Quote does not meet minimum output requirements",
                                             txHash |-> ""]]
                   ELSE IF swap.fromTokenAddress # NATIVE_LITERAL
                        THEN IF get1inchRouterAddress(swap.config.chainId) = <<>>
                             THEN [got EXCEPT !.pc = "done",
                                      !.result = [returned |-> TRUE, threw |-> FALSE,
                                                  success |-> FALSE,
                                                  error |->
                                                    "1inch router not found for this chain",
                                                  txHash |-> ""]]
                             ELSE swapAwaits(got, "getTokenAllowance")
                   ELSE swapAwaits(got, "getSwapTx")
        /\ UNCHANGED <<registry, perms>>

\* lines 132-163: the allowance arrives; too small, the approval transaction is asked
getTokenAllowanceReturns(outcome) ==
    LET got == [swap EXCEPT !.allowance = outcome.value]
    IN  /\ swap.pc = "getTokenAllowance"
        /\ swap' = IF outcome.threw THEN swapFails("thrown")
                   ELSE IF BigIntLt(outcome.value, swap.amountWei)
                        THEN swapAwaits(got, "getApprovalTx")
                   ELSE swapAwaits(got, "getSwapTx")
        /\ UNCHANGED <<registry, perms>>

\* lines 140-151: the approval transaction arrives and is not executed
getApprovalTxReturns(outcome) ==
    /\ swap.pc = "getApprovalTx"
    /\ swap' = IF outcome.threw THEN swapFails("thrown")
               ELSE swapFails("Token approval required")
    /\ UNCHANGED <<registry, perms>>

\* the conversions of lines 170-171 left out
getSwapTxReturns_noBigInt(outcome) ==
    /\ swap.pc = "getSwapTx"
    /\ swap' = IF outcome.threw THEN swapFails("thrown")
               ELSE swapAwaits([swap EXCEPT !.swapTx = outcome.value], "writeContract")
    /\ UNCHANGED <<registry, perms>>

\* lines 156-186: the swap transaction arrives; the argument of writeContract is built
\* first, and a TypeError, SyntaxError or RangeError of BigInt(swapTx.value) or
\* BigInt(swapTx.gas) goes to the catch of line 180, which returns its message, before
\* writeContract is called; else writeContract is called
getSwapTxReturns(outcome) ==
    LET got == [swap EXCEPT !.swapTx = outcome.value]
    IN  /\ swap.pc = "getSwapTx"
        /\ swap' = IF outcome.threw THEN swapFails("thrown")
                   ELSE IF BigIntOfValue(outcome.value.value).threw
                             \/ BigIntOfNumber(outcome.value.gas).threw
                        THEN [got EXCEPT !.pc = "done",
                                 !.result = [returned |-> TRUE, threw |-> FALSE,
                                             success |-> FALSE, error |-> "thrown",
                                             txHash |-> ""]]
                   ELSE swapAwaits(got, "writeContract")
        /\ UNCHANGED <<registry, perms>>

\* lines 167-186: writeContract resolves with the hash or rejects
writeContractReturns(outcome) ==
    /\ swap.pc = "writeContract"
    /\ swap' = IF outcome.threw THEN swapFails("Swap execution failed")
               ELSE [swap EXCEPT !.pc = "done",
                        !.result = [returned |-> TRUE, threw |-> FALSE, success |-> TRUE,
                                    error |-> "", txHash |-> outcome.value]]
    /\ UNCHANGED <<registry, perms>>

NextSwap ==
    \/ \E config \in SwapConfigs : executeAgentSwap(config)
    \/ \E threw \in BOOLEAN, balance \in Balances :
          getTokenBalanceReturns(IF threw THEN Threw ELSE Answer(balance))
    \/ \E threw \in BOOLEAN, quote \in Quotes :
          getSwapQuoteReturns(IF threw THEN Threw ELSE Answer(quote))
    \/ \E threw \in BOOLEAN, allowance \in Allowances :
          getTokenAllowanceReturns(IF threw THEN Threw ELSE Answer(allowance))
    \/ \E threw \in BOOLEAN : getApprovalTxReturns(IF threw THEN Threw ELSE Answer(0))
    \/ \E threw \in BOOLEAN, value \in SwapTxValues, gas \in SwapTxGases :
          getSwapTxReturns(IF threw THEN Threw
                           ELSE Answer([value |-> value, gas |-> gas]))
    \/ \E threw \in BOOLEAN :
          writeContractReturns(IF threw THEN Threw ELSE Answer("0xhash"))

SpecSwap == Init /\ [][NextSwap]_vars

-----------------------------------------------------------------------------
(* useAgentPermissions (frontend-only permissions kept in localStorage):    *)
(* the hook is created with or without an agentId, a call runs with or     *)
(* without a window, and each access of localStorage may throw.  An entry  *)
(* without expiry has expiresAt 0: JSON.stringify leaves an undefined      *)
(* expiresAt out, and the test perm.expiresAt && ... treats undefined and  *)
(* 0 alike.                                                                *)

MaxClock == 2   \* number of advances of Date.now()

ExpiresAts == {0, 1, 3}

\* a call that returned ret; a call that threw has returned nothing
PermCall(op, agentId, signer, permission, window, ret) ==
    [op |-> op, agentId |-> agentId, signer |-> signer, permission |-> permission,
     window |-> window, ret |-> ret, threw |-> FALSE]

\* the key agent_permission_${agentId}_${signer}_${permission}; a hook without agentId
\* builds it from the text "undefined"
PermKey(agentId, signer, permission) == <<agentId, signer, permission>>

\* lines 63-80: the lookup of a signer that is not the owner, once getItem has answered;
\* window tells whether the call runs in a browser
storedPermission(agentId, signer, permission, window) ==
    LET perm == perms.storage[PermKey(agentId, signer, permission)]
    IN  IF ~window THEN FALSE
        ELSE IF ~perm.stored THEN FALSE
        ELSE IF perm.expiresAt # 0 /\ perm.expiresAt < perms.clock THEN FALSE
        ELSE permission \in perm.permissions \/ "all" \in perm.permissions

\* lines 53-81: what hasPermission returns when it returns
hasPermissionResult(agentId, signer, permission, agentOwner, window) ==
    IF signer = agentOwner THEN TRUE
    ELSE storedPermission(agentId, signer, permission, window)

\* hasPermission, lines 53-81: the owner and a call without window are answered before
\* localStorage is touched; getItem (line 68) is outside the try, so that its error
\* leaves hasPermission; an expired entry is removed (line 74), and when removeItem
\* throws the entry stays and the catch of line 78 returns false
hasPermission(agentId, signer, permission, agentOwner, window, getItemThrows, removeThrows) ==
    LET key == PermKey(agentId, signer, permission)
        reads == signer # agentOwner /\ window
        expired == /\ perms.storage[key].stored
                   /\ perms.storage[key].expiresAt # 0
                   /\ perms.storage[key].expiresAt < perms.clock
    IN  /\ perms' = IF reads /\ getItemThrows
                    THEN [perms EXCEPT
                            !.last = [PermCall("hasPermission", agentId, signer,
                                               permission, window, FALSE)
                                      EXCEPT !.threw = TRUE]]
                    ELSE [perms EXCEPT
                            !.storage = IF reads /\ expired /\ ~removeThrows
                                        THEN [@ EXCEPT ![key] = NoEntry] ELSE @,
                            !.last = PermCall("hasPermission", agentId, signer, permission,
                                              window,
                                              hasPermissionResult(agentId, signer,
                                                                  permission, agentOwner,
                                                                  window))]
        /\ UNCHANGED <<registry, swap>>

\* grantPermission, lines 86-110: nothing is stored without an agentId (line 91) or
\* when localStorage throws (lines 106-109)
grantPermission(agentId, signer, permission, expiresAt, storageThrows) ==
    LET stores == agentId # NoAgentId /\ ~storageThrows
    IN  /\ perms' = [perms EXCEPT
                        !.storage[PermKey(agentId, signer, permission)] =
                            IF stores
                            THEN [stored |-> TRUE, permissions |-> {permission},
                                  expiresAt |-> expiresAt]
                            ELSE @,
                        !.last = PermCall("grantPermission", agentId, signer, permission,
                                          TRUE, stores)]
        /\ UNCHANGED <<registry, swap>>

\* revokePermission, lines 115-129: nothing is removed without an agentId (line 119)
\* or when localStorage throws (lines 125-128)
revokePermission(agentId, signer, permission, storageThrows) ==
    LET removes == agentId # NoAgentId /\ ~storageThrows
    IN  /\ perms' = [perms EXCEPT
                        !.storage[PermKey(agentId, signer, permission)] =
                            IF removes THEN NoEntry ELSE @,
                        !.last = PermCall("revokePermission", agentId, signer, permission,
                                          TRUE, removes)]
        /\ UNCHANGED <<registry, swap>>

\* Date.now() advances
PermClockTick ==
    /\ perms.clock < 1 + MaxClock
    /\ perms' = [perms EXCEPT !.clock = @ + 1, !.last = NoPermCall]
    /\ UNCHANGED <<registry, swap>>

\* the owner and signer 2 ask for every type, signer 3 for two of them
PermQueries ==
    ({AgentOwner, 2} \X PermissionTypes) \cup ({3} \X {"all", "deactivate"})

\* signer 2 is granted every type, two of them with an expiry; signer 3 is granted ALL
PermGrants ==
    ({2} \X {"all", "execute_trigger"} \X ExpiresAts)
    \cup ({2} \X {"update_strategy", "deactivate"} \X {0})
    \cup ({3} \X {"all"} \X {0})

NextPerms ==
    \/ \E agentId \in HookAgentIds, q \in PermQueries, window \in BOOLEAN,
          getItemThrows \in BOOLEAN, removeThrows \in BOOLEAN :
          hasPermission(agentId, q[1], q[2], AgentOwner, window, getItemThrows,
                        removeThrows)
    \/ \E agentId \in HookAgentIds, g \in PermGrants, storageThrows \in BOOLEAN :
          grantPermission(agentId, g[1], g[2], g[3], storageThrows)
    \/ \E agentId \in HookAgentIds, signer \in Signers,
          permission \in {"all", "execute_trigger"}, storageThrows \in BOOLEAN :
          revokePermission(agentId, signer, permission, storageThrows)
    \/ PermClockTick

SpecPerms == Init /\ [][NextPerms]_vars

-----------------------------------------------------------------------------
(* Vocabulary of the properties                                            *)

\* the error taxonomy of the specification, from the revert data of the contract
SpecError(result) ==
    CASE result = "AgentNotFound" -> "NotFound"
      [] result = "Agent already exists" -> "AlreadyExists"
      [] result = "Strategy not active" -> "Inactive"
      [] result \in {"PriceFeedNotFound", "StalePrice", "PriceNotUpdated"} -> "PriceUnavailable"
      [] result = "TriggerNotMet" -> "ConditionNotMet"
      [] OTHER -> result

\* the value of a uint256 t + c is larger than n (n and t are below 2^255)
BeforeSum(n, t, c) == IF c < 0 THEN TRUE ELSE n < t + c

\* this step is a successful checkAndExecuteTrigger on agent id
ExecutedStep(id) ==
    /\ last'.op = "checkAndExecuteTrigger"
    /\ last'.agentId = id
    /\ last'.result = "ok"
    /\ executedAt'[id] = now

\* this step is checkAndExecuteTrigger(id, updateData) by some caller
ExecCallStep(id, updateData) ==
    /\ last'.op = "checkAndExecuteTrigger"
    /\ last'.agentId = id
    /\ checkAndExecuteTrigger(last'.sender, id, updateData)

\* the reading the call would use is present and at most MAX_AGE old
FreshReading(id, updateData) ==
    LET prices == pythAfterUpdate(pythPrices, updateData)
        feed == agents[id].strategy.priceFeedId
    IN  /\ prices[feed].publishTime # 0
        /\ now - prices[feed].publishTime <= MAX_AGE

\* the price the call would compare, and the comparison of the specification
ReadingPrice(id, updateData) ==
    LET reading == pythAfterUpdate(pythPrices, updateData)[agents[id].strategy.priceFeedId]
    IN  IF reading.expo < 0 THEN Dec(reading.price * Pow10(-reading.expo))
        ELSE Dec(reading.price \div Pow10(reading.expo))

\* p >= t when triggerAbove, p <= t otherwise, for a price p in decimal digits
ConditionMet(strategy, p) ==
    IF strategy.triggerAbove THEN ~DecLt(p, U256Dec(strategy.triggerPrice))
    ELSE ~DecLt(U256Dec(strategy.triggerPrice), p)

-----------------------------------------------------------------------------
(* C1 - at most one successful execution per cooldown window: a successful  *)
(* checkAndExecuteTrigger of an agent that already executed at time t1 runs *)
(* at a time t2 >= t1 + cooldownPeriod, the cooldown stored at that call.   *)
C1_OneExecutionPerCooldownWindow ==
    [][\A id \in AgentIds :
        (ExecutedStep(id) /\ executedAt[id] # 0)
        => ~BeforeSum(now, executedAt[id], agents[id].strategy.cooldownPeriod)]_vars

(* C2 - calls in one cooldown window: after a successful execution, while   *)
(* the agent was not updated or deactivated, every checkAndExecuteTrigger   *)
(* with a fresh reading inside the window fails with CooldownNotExpired and *)
(* changes nothing, so the execution that opened the window is the only one.*)
InCooldownWindow(id) ==
    /\ agents[id].exists
    /\ agents[id].strategy.isActive
    /\ agents[id].strategy.cooldownPeriod # 0
    /\ executedAt[id] # 0
    /\ untouched[id]
    /\ BeforeSum(now, executedAt[id], agents[id].strategy.cooldownPeriod)

C2_ConcurrentExecutions ==
    [][\A id \in AgentIds, updateData \in UpdateData :
        (ExecCallStep(id, updateData) /\ InCooldownWindow(id)
            /\ FreshReading(id, updateData)
            /\ ConditionMet(agents[id].strategy, ReadingPrice(id, updateData)))
        => /\ last'.result = "CooldownNotExpired"
           /\ executedAt' = executedAt
           /\ agents' = agents]_vars

C2_Witness ==
    /\ last.op = "checkAndExecuteTrigger"
    /\ last.result = "CooldownNotExpired"
    /\ InCooldownWindow(last.agentId)
    /\ executedAt[last.agentId] = now
    /\ pythPrices[1].publishTime = now
    /\ ConditionMet(agents[last.agentId].strategy, ReadingPrice(last.agentId, <<>>))

(* C3 - lastExecuted of every agent never decreases, and it changes only in *)
(* a step that is a successful checkAndExecuteTrigger on that agent.        *)
C3_LastExecutedOnlyByExecution ==
    [][\A id \in AgentIds :
        /\ ~U256Lt(agents'[id].strategy.lastExecuted, agents[id].strategy.lastExecuted)
        /\ agents'[id].strategy.lastExecuted # agents[id].strategy.lastExecuted
           => ExecutedStep(id)]_vars

(* C4 - deactivation is one-way: once deactivateAgent succeeded for an      *)
(* agent, isActive stays false and every checkAndExecuteTrigger on it fails *)
(* with Inactive.                                                           *)
C4_DeactivationIsFinal ==
    \A id \in AgentIds :
        deactivated[id]
        => /\ ~agents[id].strategy.isActive
           /\ (last.op = "checkAndExecuteTrigger" /\ last.agentId = id)
              => SpecError(last.result) = "Inactive"

(* C5 - createAgent with a valid strategy and an unused id succeeds, and    *)
(* getAgent then returns the caller as owner and the supplied strategy with *)
(* isActive = true and lastExecuted = 0.                                    *)
C5_CreateThenGet ==
    [][\A id \in AgentIds, ensLabel \in Labels, strategy \in ValidStrategies :
        (last'.op = "createAgent" /\ last'.agentId = id /\ ~agents[id].exists
            /\ createAgent(last'.sender, id, ensLabel, strategy))
        => /\ last'.result = "ok"
           /\ getAgentReturn(id)'.owner = last'.sender
           /\ getAgentReturn(id)'.strategy =
                 [strategy EXCEPT !.isActive = TRUE, !.lastExecuted = 0]]_vars

(* C6 - createAgent with an existing agent id fails with AlreadyExists for  *)
(* every caller and strategy and leaves the agent records, the owner lists  *)
(* and the agent count unchanged.                                           *)
C6_DuplicateCreateRejected ==
    [][\A id \in AgentIds :
        (last'.op = "createAgent" /\ last'.agentId = id /\ agents[id].exists)
        => /\ SpecError(last'.result) = "AlreadyExists"
           /\ agents' = agents
           /\ userAgents' = userAgents
           /\ agentCount' = agentCount]_vars

C6_Witness ==
    /\ last.op = "createAgent"
    /\ SpecError(last.result) = "AlreadyExists"
    /\ agents[last.agentId].exists
    /\ agents[last.agentId].owner # last.sender
    /\ agentCount = 1

(* C7 - updateStrategy and deactivateAgent by a caller other than the owner *)
(* fail with Unauthorized and leave the agent record unchanged; a change of *)
(* an existing agent's trigger, tokens, cooldown or isActive happens only   *)
(* in an update or deactivation called by its owner.                        *)
GuardedFields(agent) ==
    <<agent.strategy.triggerPrice, agent.strategy.triggerAbove,
      agent.strategy.tokenIn, agent.strategy.tokenOut,
      agent.strategy.cooldownPeriod, agent.strategy.isActive>>

C7_OnlyOwnerMutates ==
    [][\A id \in AgentIds :
        agents[id].exists
        => /\ (last'.op \in {"updateStrategy", "deactivateAgent"}
                 /\ last'.agentId = id /\ last'.sender # agents[id].owner)
              => (last'.result = "Unauthorized" /\ agents'[id] = agents[id])
           /\ GuardedFields(agents'[id]) # GuardedFields(agents[id])
              => /\ last'.op \in {"updateStrategy", "deactivateAgent"}
                 /\ last'.agentId = id
                 /\ last'.sender = agents[id].owner]_vars

C7_Witness ==
    /\ last.op \in {"updateStrategy", "deactivateAgent"}
    /\ last.result = "Unauthorized"
    /\ agents[last.agentId].exists
    /\ agents[last.agentId].owner # last.sender

(* C8 - the stored strategy of every existing agent is valid, and a         *)
(* createAgent or updateStrategy with an invalid strategy fails, with       *)
(* InvalidStrategy once the earlier checks pass, and writes nothing.        *)
StoredStrategyValid(strategy) ==
    /\ strategy.priceFeedId # 0
    /\ strategy.triggerPrice # 0
    /\ strategy.tokenIn # 0
    /\ strategy.tokenOut # 0

InvalidRejected(id) ==
    (last'.op \in {"createAgent", "updateStrategy"} /\ last'.agentId = id)
    => \A ensLabel \in Labels, strategy \in InvalidStrategies :
        /\ (last'.op = "createAgent" /\ createAgent(last'.sender, id, ensLabel, strategy))
           => /\ last'.result # "ok"
              /\ ~agents[id].exists => last'.result = "InvalidStrategy"
              /\ agents' = agents
        /\ (last'.op = "updateStrategy" /\ updateStrategy(last'.sender, id, strategy))
           => /\ last'.result # "ok"
              /\ (agents[id].exists /\ agents[id].owner = last'.sender)
                 => last'.result = "InvalidStrategy"
              /\ agents' = agents

C8_StoredStrategiesValid ==
    /\ [](\A id \in AgentIds : agents[id].exists => StoredStrategyValid(agents[id].strategy))
    /\ [][\A id \in AgentIds : InvalidRejected(id)]_vars

C8_Witness ==
    /\ last.op = "updateStrategy"
    /\ last.result = "InvalidStrategy"
    /\ agents[last.agentId].exists
    /\ StoredStrategyValid(agents[last.agentId].strategy)

(* C9 - cooldown boundary: for an existing active agent with lastExecuted T *)
(* and cooldownPeriod C and a fresh reading that meets the trigger, the     *)
(* call fails with CooldownNotExpired when now < T + C, and otherwise       *)
(* succeeds and stores lastExecuted = now.                                  *)
Executable(id, updateData) ==
    /\ agents[id].exists
    /\ agents[id].strategy.isActive
    /\ FreshReading(id, updateData)

C9_CooldownBoundary ==
    [][\A id \in AgentIds, updateData \in UpdateData :
        (ExecCallStep(id, updateData) /\ Executable(id, updateData)
            /\ ConditionMet(agents[id].strategy, ReadingPrice(id, updateData)))
        => IF BeforeSum(now, agents[id].strategy.lastExecuted,
                        agents[id].strategy.cooldownPeriod)
           THEN last'.result = "CooldownNotExpired" /\ agents' = agents
           ELSE last'.result = "ok" /\ agents'[id].strategy.lastExecuted = now]_vars

(* C10 - the trigger comparison is inclusive in both directions: checkTrigger *)
(* reports met exactly when (triggerAbove and p >= t) or (not triggerAbove  *)
(* and p <= t), and checkAndExecuteTrigger passes its last gate on the same *)
(* test.                                                                    *)
C10_InclusiveTrigger ==
    [][/\ (last'.op = "checkTrigger" /\ last'.result = "ok")
          => last'.ret[1] = ConditionMet(agents[last'.agentId].strategy, last'.ret[2])
       /\ \A id \in AgentIds, updateData \in UpdateData :
            (ExecCallStep(id, updateData) /\ Executable(id, updateData)
                /\ ~BeforeSum(now, agents[id].strategy.lastExecuted,
                              agents[id].strategy.cooldownPeriod))
            => /\ (last'.result = "ok")
                    = ConditionMet(agents[id].strategy, ReadingPrice(id, updateData))
               /\ last'.result \in {"ok", "TriggerNotMet"}]_vars

C10_Witness ==
    /\ last.op = "checkTrigger"
    /\ last.result = "ok"
    /\ last.ret = <<TRUE, Dec(50)>>
    /\ ~agents[last.agentId].strategy.triggerAbove
    /\ agents[last.agentId].strategy.triggerPrice = 50

(* ----------------------------------------------------------------------- *)
(* Price normalization                                                      *)
(* ----------------------------------------------------------------------- *)

\* the reading of agent id's feed that a call carrying updateData converts
ReadingOf(id, updateData) ==
    pythAfterUpdate(pythPrices, updateData)[agents[id].strategy.priceFeedId]

\* a checkTrigger call on agent id that returned a price
ViewedStep(id) ==
    /\ last'.op = "checkTrigger"
    /\ last'.agentId = id
    /\ last'.result = "ok"

(* C11 - a reading of exponent -8 is already at the 10^8 scale of the      *)
(* trigger price: the price that checkTrigger returns and the price that   *)
(* checkAndExecuteTrigger compares and reports for such a reading is the   *)
(* mantissa itself.                                                        *)
C11_ExponentMinus8IsCanonical ==
    [][\A id \in LifeIds :
          /\ (ViewedStep(id) /\ ReadingOf(id, <<>>).expo = -8)
                => last'.ret[2] = Dec(ReadingOf(id, <<>>).price)
          /\ \A updateData \in PriceUpdateData :
                (ExecCallStep(id, updateData) /\ last'.result = "ok"
                   /\ ReadingOf(id, updateData).expo = -8)
                => logs'[1].currentPrice = Dec(ReadingOf(id, updateData).price)]_vars

\* m * 10^(-e) for e < 0 and the truncating quotient m div 10^e for e >= 0, in
\* decimal digits
Normalized(m, e) ==
    IF e < 0 THEN DecMulPow10(Dec(m), -e) ELSE DecDivPow10(Dec(m), e)

MutatingOps == {"createAgent", "updateStrategy", "deactivateAgent", "checkAndExecuteTrigger"}

(* C13 - a failing createAgent, updateStrategy, deactivateAgent or          *)
(* checkAndExecuteTrigger, whatever its error, leaves the agent map, the    *)
(* owner lists, the name index and the agent count as they were and emits   *)
(* no event; in particular lastExecuted is unchanged.                       *)
C13_FailedCallsChangeNothing ==
    [][(last'.op \in MutatingOps /\ last'.result # "ok")
         => /\ store' = store
            /\ logs' = <<>>
            /\ \A id \in AgentIds :
                  agents'[id].strategy.lastExecuted = agents[id].strategy.lastExecuted]_vars

\* failures of each of the four operations on a created agent that had executed
C13_Witness ==
    /\ agents[1].exists
    /\ agents[1].strategy.isActive
    /\ executedAt[1] # 0
    /\ \/ last.op = "deactivateAgent" /\ last.result = "Unauthorized"
       \/ last.op = "checkAndExecuteTrigger" /\ last.result = "TriggerNotMet"

\* the first gate of the fixed order that a call on agent id fails, "ok" if none
FirstFailingGate(id, updateData) ==
    IF ~agents[id].exists THEN "NotFound"
    ELSE IF ~agents[id].strategy.isActive THEN "Inactive"
    ELSE IF ~FreshReading(id, updateData) THEN "PriceUnavailable"
    ELSE IF BeforeSum(now, agents[id].strategy.lastExecuted,
                      agents[id].strategy.cooldownPeriod) THEN "CooldownNotExpired"
    ELSE IF ~ConditionMet(agents[id].strategy, ReadingPrice(id, updateData))
         THEN "ConditionNotMet"
    ELSE "ok"

(* C14 - checkAndExecuteTrigger applies its gates in the order existence,   *)
(* active, price availability and freshness, cooldown, trigger condition    *)
(* and reports the error of the first gate that fails.                      *)
C14_GateOrder ==
    [][\A id \in LifeIds, updateData \in UpdateData :
          ExecCallStep(id, updateData)
          => SpecError(last'.result) = FirstFailingGate(id, updateData)]_vars

\* this step is checkTrigger(id) by some caller while the oracle's valid time period is
\* validTimePeriod
CheckCallStep(id, validTimePeriod) ==
    /\ last'.op = "checkTrigger"
    /\ last'.agentId = id
    /\ checkTrigger(last'.sender, id, validTimePeriod)

(* C15 - checkTrigger changes no state, and for an existing agent whose     *)
(* feed has a reading no older than the oracle's own valid time period it   *)
(* returns the comparison of the converted reading with triggerPrice in the *)
(* direction triggerAbove, whatever isActive, lastExecuted and              *)
(* cooldownPeriod are and whether or not the reading is older than MAX_AGE; *)
(* a reading older than the oracle's valid time period is PriceUnavailable. *)
C15_CheckTriggerAppliesOnlyOracleGate ==
    [][\A id \in LifeIds :
          /\ (last'.op = "checkTrigger" /\ last'.agentId = id)
                => /\ store' = store
                   /\ pythPrices' = pythPrices
                   /\ logs' = <<>>
          /\ \A validTimePeriod \in ValidTimePeriods :
                (CheckCallStep(id, validTimePeriod) /\ agents[id].exists
                    /\ ReadingOf(id, <<>>).publishTime # 0)
                => IF now - ReadingOf(id, <<>>).publishTime > validTimePeriod
                   THEN last'.result = "StalePrice"
                   ELSE /\ last'.result = "ok"
                        /\ last'.ret = <<ConditionMet(agents[id].strategy,
                                                      ReadingPrice(id, <<>>)),
                                         ReadingPrice(id, <<>>)>>]_vars

(* C15 as stated - checkTrigger changes no state, and for an existing agent *)
(* whose feed has a reading it returns the comparison of the converted      *)
(* reading with triggerPrice in the direction triggerAbove, whatever        *)
(* isActive, lastExecuted, cooldownPeriod and the age of the reading are.   *)
C15_CheckTriggerIsPureComparison ==
    [][\A id \in LifeIds :
          (last'.op = "checkTrigger" /\ last'.agentId = id)
          => /\ store' = store
             /\ pythPrices' = pythPrices
             /\ logs' = <<>>
             /\ (agents[id].exists /\ ReadingOf(id, <<>>).publishTime # 0)
                   => /\ last'.result = "ok"
                      /\ last'.ret = <<ConditionMet(agents[id].strategy,
                                                    ReadingPrice(id, <<>>)),
                                       ReadingPrice(id, <<>>)>>]_vars

\* met is reported for a deactivated agent inside its cooldown on a reading older than
\* MAX_AGE, which the oracle's valid time period of an hour still admits
C15_Witness ==
    /\ last.op = "checkTrigger"
    /\ last.result = "ok"
    /\ last.ret[1]
    /\ ~agents[1].strategy.isActive
    /\ BeforeSum(now, agents[1].strategy.lastExecuted, agents[1].strategy.cooldownPeriod)
    /\ now - pythPrices[agents[1].strategy.priceFeedId].publishTime > MAX_AGE

(* C16 - a successful updateStrategy stores the supplied trigger,           *)
(* direction, tokens, amount and cooldown, and leaves lastExecuted at the   *)
(* value it had before the call, whatever strategy is supplied.             *)
C16_UpdateKeepsLastExecuted ==
    [][\A id \in LifeIds, newStrategy \in Strategies :
          (last'.op = "updateStrategy" /\ last'.agentId = id /\ last'.result = "ok"
             /\ updateStrategy(last'.sender, id, newStrategy))
          => /\ agents'[id].strategy.triggerPrice = newStrategy.triggerPrice
             /\ agents'[id].strategy.triggerAbove = newStrategy.triggerAbove
             /\ agents'[id].strategy.tokenIn = newStrategy.tokenIn
             /\ agents'[id].strategy.tokenOut = newStrategy.tokenOut
             /\ agents'[id].strategy.amountIn = newStrategy.amountIn
             /\ agents'[id].strategy.cooldownPeriod = newStrategy.cooldownPeriod
             /\ agents'[id].strategy.lastExecuted = agents[id].strategy.lastExecuted]_vars

(* ----------------------------------------------------------------------- *)
(* Store consistency and immutability                                       *)
(* ----------------------------------------------------------------------- *)

\* how many times id occurs in the list of user
Occurrences(user, id) ==
    Cardinality({i \in 1..Len(userAgents[user]) : userAgents[user][i] = id})

StoreConsistent ==
    /\ agentCount = Cardinality({id \in AgentIds : agents[id].exists})
    /\ \A id \in AgentIds :
          IF agents[id].exists
          THEN /\ agents[id].owner \in Addresses
               /\ \A user \in Addresses :
                     Occurrences(user, id) = IF user = agents[id].owner THEN 1 ELSE 0
          ELSE \A user \in Addresses : Occurrences(user, id) = 0

\* the owner lists change only by a successful createAgent appending the new id to its
\* sender's list, and getUserAgents returns the list it is asked for
ListsInCreationOrder ==
    /\ \/ userAgents' = userAgents
       \/ /\ last'.op = "createAgent"
          /\ last'.result = "ok"
          /\ ~agents[last'.agentId].exists
          /\ userAgents' = [userAgents EXCEPT
                              ![last'.sender] = Append(@, last'.agentId)]
    /\ last'.op = "getUserAgents"
         => \E user \in Addresses :
               /\ getUserAgents(last'.sender, user)
               /\ last'.ret = <<userAgents[user]>>

(* C17 - in every reachable state agentCount is the number of existing     *)
(* agents, every existing id occurs exactly once over all owner lists, in  *)
(* its owner's list, no other id occurs in any list, and the lists (which  *)
(* getUserAgents returns) hold the ids in the order of their creation.     *)
C17_StoreConsistency == []StoreConsistent /\ [][ListsInCreationOrder]_vars

\* one owner holds both agents, created in the order 2, 1, and the list is read
C17_Witness ==
    /\ agentCount = 2
    /\ agents[1].owner = 1
    /\ agents[2].owner = 1
    /\ last.op = "getUserAgents"
    /\ last.ret = << <<2, 1>> >>

\* the fields of an agent that are written once, at creation
CreationFields(agent) == <<agent.owner, agent.ensNode, agent.ensName, agent.createdAt>>

(* C18 - an agent that exists keeps existing, agentCount never decreases,  *)
(* and the agent's owner, ENS node and name and createdAt never change,    *)
(* whatever call is made.                                                  *)
C18_CreatedAgentsPersist ==
    [][/\ ~U256Lt(agentCount', agentCount)
       /\ \A id \in AgentIds :
             agents[id].exists
             => /\ agents'[id].exists
                /\ CreationFields(agents'[id]) = CreationFields(agents[id])]_vars

\* a second createAgent on agent 1 after it was updated, executed and deactivated, agent 2
\* existing with the other owner
C18_Witness ==
    /\ last.op = "createAgent"
    /\ last.agentId = 1
    /\ last.result = "Agent already exists"
    /\ agents[1].owner = 1
    /\ agents[1].strategy.amountIn = 7
    /\ executedAt[1] # 0
    /\ deactivated[1]
    /\ agents[2].exists
    /\ agents[2].owner = 2

(* ----------------------------------------------------------------------- *)
(* Events and the freshness of the reading                                  *)
(* ----------------------------------------------------------------------- *)

\* the event of each state-changing function
EventOf(op) ==
    CASE op = "createAgent" -> "AgentCreated"
      [] op = "updateStrategy" -> "StrategyUpdated"
      [] op = "deactivateAgent" -> "AgentDeactivated"
      [] op = "checkAndExecuteTrigger" -> "TriggerExecuted"

(* C19 - every successful createAgent, updateStrategy, deactivateAgent and  *)
(* checkAndExecuteTrigger emits exactly one event, of its own kind; a       *)
(* failing call and a read emit none; a TriggerExecuted event carries the   *)
(* agent id, the strategy's feed id, the converted price of the reading,    *)
(* the stored triggerPrice and the timestamp written to lastExecuted.       *)
C19_OneEventPerSuccess ==
    [][/\ IF last'.op \in MutatingOps /\ last'.result = "ok"
          THEN /\ Len(logs') = 1
               /\ logs'[1].event = EventOf(last'.op)
               /\ logs'[1].agentId = last'.agentId
          ELSE logs' = <<>>
       /\ \A id \in LifeIds, updateData \in UpdateData :
             (ExecCallStep(id, updateData) /\ last'.result = "ok")
             => /\ logs'[1].priceFeedId = agents[id].strategy.priceFeedId
                /\ logs'[1].currentPrice = ReadingPrice(id, updateData)
                /\ logs'[1].triggerPrice = agents[id].strategy.triggerPrice
                /\ logs'[1].timestamp = agents'[id].strategy.lastExecuted
                /\ logs'[1].timestamp = now]_vars

\* a second execution of the agent, whose event carries the new lastExecuted and a price
\* that differs from the trigger price
C19_Witness ==
    /\ last.op = "checkAndExecuteTrigger"
    /\ last.result = "ok"
    /\ logs[1].event = "TriggerExecuted"
    /\ logs[1].timestamp = agents[1].strategy.lastExecuted
    /\ logs[1].timestamp > StartTime
    /\ logs[1].currentPrice # U256Dec(logs[1].triggerPrice)

(* C20 - checkAndExecuteTrigger on an existing active agent fails with      *)
(* PriceUnavailable and leaves the agents unchanged whenever the feed has   *)
(* no reading or a reading published more than MAX_AGE seconds before now,  *)
(* whatever the price and the cooldown; a successful execution used a       *)
(* reading at most MAX_AGE seconds old.                                     *)
C20_StaleOrAbsentReadingFails ==
    [][\A id \in LifeIds, updateData \in UpdateData :
          ExecCallStep(id, updateData)
          => /\ (agents[id].exists /\ agents[id].strategy.isActive
                   /\ ~FreshReading(id, updateData))
                  => /\ SpecError(last'.result) = "PriceUnavailable"
                     /\ agents' = agents
             /\ last'.result = "ok"
                  => /\ pythPrices'[agents[id].strategy.priceFeedId].publishTime # 0
                     /\ now - pythPrices'[agents[id].strategy.priceFeedId].publishTime
                           <= MAX_AGE]_vars

\* a stale reading that meets the trigger, the cooldown elapsed, and the call failed
C20_Witness ==
    /\ last.op = "checkAndExecuteTrigger"
    /\ last.result = "StalePrice"
    /\ agents[1].strategy.isActive
    /\ ConditionMet(agents[1].strategy, ReadingPrice(1, <<>>))
    /\ ~BeforeSum(now, agents[1].strategy.lastExecuted, agents[1].strategy.cooldownPeriod)
    /\ now - pythPrices[agents[1].strategy.priceFeedId].publishTime > MAX_AGE

(* ----------------------------------------------------------------------- *)
(* Arithmetic failures and negative prices                                  *)
(* ----------------------------------------------------------------------- *)

TypedOutcomes ==
    {"ok", "NotFound", "Inactive", "PriceUnavailable", "CooldownNotExpired",
     "ConditionNotMet"}

(* C21 - every checkAndExecuteTrigger call ends in success or in one of    *)
(* the typed errors NotFound, Inactive, PriceUnavailable,                  *)
(* CooldownNotExpired, ConditionNotMet: neither the sum lastExecuted +     *)
(* cooldownPeriod nor the scaling by a power of ten fails by overflow.     *)
C21_OnlyTypedOutcomes ==
    last.op = "checkAndExecuteTrigger" => SpecError(last.result) \in TypedOutcomes

(* C22 - a reading of negative mantissa m converts as its magnitude: the   *)
(* price that checkTrigger returns and that checkAndExecuteTrigger reports *)
(* equals the conversion of |m| with the same exponent.                    *)
C22_NegativeMantissaByMagnitude ==
    [][\A id \in LifeIds :
          /\ (ViewedStep(id) /\ ReadingOf(id, <<>>).price < 0)
                => last'.ret[2] = Normalized(-ReadingOf(id, <<>>).price,
                                             ReadingOf(id, <<>>).expo)
          /\ \A updateData \in PriceUpdateData :
                (ExecCallStep(id, updateData) /\ last'.result = "ok"
                   /\ ReadingOf(id, updateData).price < 0)
                => logs'[1].currentPrice = Normalized(-ReadingOf(id, updateData).price,
                                                      ReadingOf(id, updateData).expo)]_vars

(* ----------------------------------------------------------------------- *)
(* Precedence of errors, frames of the successful calls                     *)
(* ----------------------------------------------------------------------- *)

(* C23 - updateStrategy and deactivateAgent on an id that was never        *)
(* created fail with NotFound for every caller; on an existing agent a     *)
(* caller other than the owner gets Unauthorized from updateStrategy       *)
(* whatever strategy it supplies, so InvalidStrategy goes to the owner     *)
(* only; createAgent on an existing id fails with AlreadyExists whatever   *)
(* strategy it supplies.                                                   *)
C23_ErrorPrecedence ==
    [][\A id \in LifeIds :
          /\ (last'.op \in {"updateStrategy", "deactivateAgent"} /\ last'.agentId = id
                 /\ ~agents[id].exists)
                => SpecError(last'.result) = "NotFound"
          /\ (last'.op = "deactivateAgent" /\ last'.agentId = id /\ agents[id].exists
                 /\ last'.sender # agents[id].owner)
                => last'.result = "Unauthorized"
          /\ \A newStrategy \in Strategies :
                (last'.op = "updateStrategy" /\ last'.agentId = id /\ agents[id].exists
                   /\ updateStrategy(last'.sender, id, newStrategy))
                => /\ last'.sender # agents[id].owner => last'.result = "Unauthorized"
                   /\ last'.result = "InvalidStrategy"
                        => /\ last'.sender = agents[id].owner
                           /\ ~_isValidStrategy(newStrategy)
          /\ \A strategy \in Strategies :
                (last'.op = "createAgent" /\ last'.agentId = id /\ agents[id].exists
                   /\ createAgent(last'.sender, id, "a", strategy))
                => SpecError(last'.result) = "AlreadyExists"]_vars

\* a caller other than the owner was refused on an existing agent
C23_Witness ==
    /\ last.op = "updateStrategy"
    /\ last.result = "Unauthorized"
    /\ agents[last.agentId].exists
    /\ agents[last.agentId].owner # last.sender

(* C24 - a successful checkAndExecuteTrigger writes lastExecuted of the    *)
(* agent it names and nothing else of the store: every other field of the  *)
(* agent, the other agents, the owner lists, the name index and the agent  *)
(* count are unchanged.                                                    *)
C24_ExecutionWritesLastExecutedOnly ==
    [][\A id \in LifeIds :
          ExecutedStep(id)
          => /\ agents' = [agents EXCEPT ![id].strategy.lastExecuted = now]
             /\ userAgents' = userAgents
             /\ ensNodeToAgentId' = ensNodeToAgentId
             /\ agentCount' = agentCount]_vars

\* an executed agent that is still active and carries an amount to swap
C24_Witness ==
    /\ last.op = "checkAndExecuteTrigger"
    /\ last.result = "ok"
    /\ agents[1].strategy.lastExecuted = now
    /\ agents[1].strategy.isActive
    /\ agents[1].strategy.amountIn = 7
    /\ agents[1].createdAt < now

(* C25 - a successful deactivateAgent sets isActive to false and changes   *)
(* no other field; the owner's deactivateAgent on an inactive agent        *)
(* succeeds and leaves the agent as it was.                                *)
C25_DeactivateFrameAndRepeat ==
    [][\A id \in LifeIds :
          (last'.op = "deactivateAgent" /\ last'.agentId = id)
          => /\ last'.result = "ok"
                  => agents' = [agents EXCEPT ![id].strategy.isActive = FALSE]
             /\ (agents[id].exists /\ last'.sender = agents[id].owner
                    /\ ~agents[id].strategy.isActive)
                  => last'.result = "ok" /\ agents' = agents]_vars

\* a deactivated agent that had executed keeps its lastExecuted and its cooldown
C25_Witness ==
    /\ last.op = "deactivateAgent"
    /\ last.result = "ok"
    /\ ~agents[1].strategy.isActive
    /\ agents[1].strategy.lastExecuted = executedAt[1]
    /\ executedAt[1] # 0
    /\ agents[1].strategy.cooldownPeriod = MAX_AGE + 1

(* C26 - the outcome of checkAndExecuteTrigger (its result, the agents     *)
(* after it and the event) is a function of the store, the oracle, the     *)
(* time and the arguments, the same for every caller; a caller other than  *)
(* the owner so advances lastExecuted.                                     *)
C26_CallerIndependentExecution ==
    [][\A id \in LifeIds, updateData \in UpdateData :
          ExecCallStep(id, updateData)
          => /\ last'.result = checkAndExecuteTriggerResult(id, updateData)
             /\ agents' = IF last'.result = "ok"
                          THEN [agents EXCEPT ![id].strategy.lastExecuted = now]
                          ELSE agents
             /\ logs' = IF last'.result = "ok"
                        THEN <<[event |-> "TriggerExecuted", agentId |-> id,
                                priceFeedId |-> agents[id].strategy.priceFeedId,
                                currentPrice |-> ReadingPrice(id, updateData),
                                triggerPrice |-> agents[id].strategy.triggerPrice,
                                timestamp |-> now]>>
                        ELSE <<>>]_vars

\* an execution by a caller that does not own the agent
C26_Witness ==
    /\ last.op = "checkAndExecuteTrigger"
    /\ last.result = "ok"
    /\ last.sender # agents[1].owner
    /\ agents[1].strategy.lastExecuted = now

(* ----------------------------------------------------------------------- *)
(* Name bindings and isolation of agents                                    *)
(* ----------------------------------------------------------------------- *)

(* C27 - no two existing agents have the same ensNode, and                 *)
(* ensNodeToAgentId maps the ensNode of every existing agent to that       *)
(* agent's id.                                                             *)
C27_UniqueNameBindings ==
    \A a \in AgentIds :
       agents[a].exists
       => /\ ensNodeToAgentId[agents[a].ensNode] = a
          /\ \A b \in AgentIds \ {a} :
                agents[b].exists => agents[b].ensNode # agents[a].ensNode

(* C28 - a createAgent, updateStrategy, deactivateAgent or                 *)
(* checkAndExecuteTrigger call that names agent A, successful or not,      *)
(* leaves every other agent's record unchanged, and changes no owner list  *)
(* but that of the caller of a successful createAgent.                     *)
C28_PerAgentIsolation ==
    [][\A a \in AgentIds :
          (last'.op \in MutatingOps /\ last'.agentId = a)
          => /\ \A b \in AgentIds \ {a} : agents'[b] = agents[b]
             /\ \A user \in Addresses :
                   userAgents'[user] # userAgents[user]
                   => /\ last'.op = "createAgent"
                      /\ last'.result = "ok"
                      /\ user = last'.sender]_vars

\* agent 1 was executed and deactivated while agent 2, of the other owner, still holds its
\* creation strategy and has never executed
C28_Witness ==
    /\ agents[1].exists
    /\ agents[2].exists
    /\ agents[1].owner # agents[2].owner
    /\ last.op = "checkAndExecuteTrigger"
    /\ last.agentId = 1
    /\ last.result = "ok"
    /\ agents[1].strategy.lastExecuted = now
    /\ agents[2].strategy = BaseStrategy
    /\ userAgents[agents[2].owner] = <<2>>

(* ----------------------------------------------------------------------- *)
(* executeAgentSwap                                                         *)
(* ----------------------------------------------------------------------- *)

\* how many times the invocation has called callee
TimesCalled(callee) ==
    Cardinality({i \in 1..Len(swap.calls) : swap.calls[i] = callee})

\* the orders of collaborator calls in which an invocation may reach writeContract: the
\* allowance may be left out for the native token only
CallsBeforeWrite ==
    {<<"getTokenBalance", "getSwapQuote", "getTokenAllowance", "getSwapTx",
       "writeContract">>}
    \cup (IF swap.fromTokenAddress = NATIVE_ETH
          THEN {<<"getTokenBalance", "getSwapQuote", "getSwapTx", "writeContract">>}
          ELSE {})

(* C29 - executeAgentSwap calls writeContract at most once, and only after *)
(* both tokens resolved, the balance covered the amount, the quote met     *)
(* minExpectedOutput when one is given and, for a token other than the     *)
(* native one, the router exists and the allowance covered the amount, in  *)
(* that order, and with a swap transaction whose value and gas convert to  *)
(* BigInt; success is returned only when writeContract resolved, and every *)
(* other end of the invocation is a returned result with success = false,  *)
(* never a rejection.                                                      *)
C29_SwapSubmittedOnceAfterGates ==
    /\ TimesCalled("writeContract") <= 1
    /\ TimesCalled("writeContract") = 1
         => /\ swap.fromTokenAddress # <<>>
            /\ swap.toTokenAddress # <<>>
            /\ ~BigIntLt(swap.balance, swap.amountWei)
            /\ swap.config.minExpectedOutput # <<>>
                 => ~DecLt(swap.quote, swap.config.minExpectedOutput)
            /\ swap.fromTokenAddress # NATIVE_ETH
                 => /\ get1inchRouterAddress(swap.config.chainId) # <<>>
                    /\ ~BigIntLt(swap.allowance, swap.amountWei)
            /\ swap.swapTx.value.type = "string"
            /\ swap.swapTx.value.text \in {Str("0"), Str("0x2386f26fc10000")}
            /\ swap.swapTx.gas = Finite(FALSE, <<2, 0, 0, 0, 0, 0>>, 0)
            /\ swap.calls \in CallsBeforeWrite
    /\ swap.result.success
         => /\ swap.pc = "done"
            /\ TimesCalled("writeContract") = 1
            /\ swap.result.txHash # ""
    /\ ~swap.result.threw
    /\ swap.pc = "done" <=> swap.result.returned
    /\ (swap.pc = "done" /\ swap.result.txHash = "") => ~swap.result.success

\* a swap of 9007 tokens with a minimal output that went through every gate and was
\* submitted, the balance being exactly the parsed amount
C29_Witness ==
    /\ swap.result.success
    /\ swap.config.minExpectedOutput # <<>>
    /\ swap.config.amount = Finite(FALSE, <<9, 0, 0, 7>>, 0)
    /\ swap.balance = swap.amountWei.digits
    /\ swap.calls = <<"getTokenBalance", "getSwapQuote", "getTokenAllowance", "getSwapTx",
                      "writeContract">>

(* ----------------------------------------------------------------------- *)
(* useAgentPermissions                                                      *)
(* ----------------------------------------------------------------------- *)

\* signer holds an unrevoked grant of ALL without expiry
HoldsAll(agentId, signer) ==
    /\ perms.storage[PermKey(agentId, signer, "all")].stored
    /\ perms.storage[PermKey(agentId, signer, "all")].expiresAt = 0

\* the entry that hasPermission reads for (signer, permission) has expired
Expired(agentId, signer, permission) ==
    /\ perms.storage[PermKey(agentId, signer, permission)].stored
    /\ perms.storage[PermKey(agentId, signer, permission)].expiresAt # 0
    /\ perms.storage[PermKey(agentId, signer, permission)].expiresAt < perms.clock

(* C30 - hasPermission returns true for the owner, for every permission   *)
(* type, whatever localStorage does; for another signer, read in a browser *)
(* whose localStorage answers, it is true for every permission type while  *)
(* a grant of ALL without expiry is held (granted and not revoked); it     *)
(* reports nothing as held for any type once ALL is revoked and no other   *)
(* grant is stored, nor for a grant that has expired; the grants are those *)
(* of the hook's agentId.                                                  *)
C30_DelegatedPermissions ==
    [][perms'.last.op = "hasPermission"
         => LET agentId == perms'.last.agentId
                signer == perms'.last.signer
                permission == perms'.last.permission
            IN  /\ signer = AgentOwner => (perms'.last.ret /\ ~perms'.last.threw)
                /\ (signer # AgentOwner /\ HoldsAll(agentId, signer)
                      /\ perms'.last.window /\ ~perms'.last.threw)
                     => perms'.last.ret
                /\ (signer # AgentOwner
                      /\ \A p \in PermissionTypes :
                            ~perms.storage[PermKey(agentId, signer, p)].stored)
                     => ~perms'.last.ret
                /\ (signer # AgentOwner /\ Expired(agentId, signer, permission)
                      /\ ~HoldsAll(agentId, signer))
                     => ~perms'.last.ret]_vars

====
